---- MODULE Spec2Model ----
(***************************************************************************)
(* A model of nanobot's agent orchestration loop (nanobot/agent/loop.py):  *)
(* the driving loop AgentLoop.run, the per-message call/execute cycle of   *)
(* AgentLoop._process_message / _process_system_message, and stop().       *)
(*                                                                         *)
(* Text is modelled as a sequence of tokens: ":" is the separator token,   *)
(* any other token is a piece of text without a separator, so that         *)
(* "alpha:42" is <<"alpha", ":", "42">> and f"{a}:{b}" is a \o <<":">> \o b.*)
(*                                                                         *)
(* Every action is the code between two suspension points (awaits) of the  *)
(* run() task; stop() is called from another task and can take effect at   *)
(* any suspension point.                                                   *)
(*                                                                         *)
(* AgentLoop.process_direct is a second task with its own locals; it and   *)
(* run() share the session store, the remote tool manager                  *)
(* (nanobot/mcp/client.py) and the tool registry with its remote-tool      *)
(* adapters (nanobot/mcp/tools/adapter.py). Spec is run() alone,           *)
(* SpecRouting is run() serving announcements of subagents, SpecDirect is  *)
(* process_direct() alone, SpecConcurrent is both tasks in one event loop, *)
(* SpecLive is run() with its task scheduled fairly, SpecStopAsync is      *)
(* run() with the callers of stop() and stop_async(), SpecManager is the   *)
(* manager and the adapters driven on their own, SpecNaming is the         *)
(* registration of adapters for clients and tools of any names,            *)
(* SpecPolling is run() resumed whenever its awaited call can return,      *)
(* SpecDirectKeyed is process_direct() called with a session key,          *)
(* SpecShapes is the adapter's execute() over the shapes of a remote       *)
(* result, SpecConfig is the manager's start() over configurations, and    *)
(* SpecClient is one client's connect() and disconnect().                  *)
(***************************************************************************)
EXTENDS Integers, Sequences, FiniteSets, TLC

VARIABLES
    pc,             \* position of the run() task
    running,        \* AgentLoop._running
    mcp_manager,    \* AgentLoop._mcp_manager: "None", "created", "started", "stopped"
    max_iterations, \* AgentLoop.max_iterations
    inbound,        \* bus: queue of Inbound messages not yet consumed
    arrived,        \* bus: number of messages ever put on the inbound queue
    outbound,       \* bus: Outbound messages accepted by publish_outbound, in order
    msg,            \* run(): the message consumed by this iteration
    origin,         \* _process_*: the (channel, chat_id) the reply is addressed to
    session_key,    \* _process_*: key of the resolved session
    messages,       \* _process_*: the model-call message sequence
    iteration,      \* _process_*: the iteration counter
    final_content,  \* _process_*: final_content
    response,       \* _process_*: the last response returned by provider.chat
    results_done,   \* _process_*: how many tool calls of tool_calls have their result appended
    in_flight,      \* tool executions started and not yet returned (indices into tool_calls)
    pending,        \* the Outbound message handed to the publish_outbound being awaited
    sessions,       \* SessionManager: key -> history (sequence of turns) of the live sessions
    saved,          \* SessionManager: key -> history as last persisted by save()
    chat_calls,     \* number of provider.chat calls made for msg
    tool_execs,     \* number of tools.execute calls made for msg
    before,         \* the session store as it was when msg's session was resolved
    log,            \* per consumed message: what happened to it
    stop_requested, \* stop() has been called
    fault,          \* the exception run() terminated with, or "None"
    servers_up,     \* environment: the configured servers a connect() reaches
    clients,        \* MCPClientManager.clients: name -> the client connected under it
    registry,       \* ToolRegistry: name of a registered remote tool -> the connection
                    \* its adapter's session belongs to
    starts,         \* number of manager start() calls that have returned
    stops,          \* number of manager stop() calls that have returned or were abandoned
    mcp_started,    \* AgentLoop._mcp_started
    direct,         \* the process_direct() task: its position and its locals
    returned,       \* what the last process_direct() call gave its caller, and how
                    \* its teardown ended: "None", "done", "abandoned"
    stop_async_returned, \* stop_async() has been called and has returned
    mgr,            \* the manager and an adapter driven on their own: the faults
                    \* they meet and what their last operation gave
    naming,         \* a registry of adapters under the names of any clients and tools
    conn            \* one MCPClient driven on its own: its fields, and what is open

\* the manager and the registry, as run() and process_direct() share them
mcp_vars == << clients, registry, starts, stops >>

\* what belongs to process_direct() alone
direct_vars == << mcp_started, direct, returned >>

\* what only the specifications of stop_async() and of the manager on its own
\* change
unit_vars == << stop_async_returned, mgr, naming, conn >>

\* what belongs to the run() task alone
run_vars == << pc, running, max_iterations, inbound, arrived, outbound, msg, origin,
              session_key, messages, iteration, final_content, response, results_done,
              in_flight, pending, chat_calls, tool_execs, before, log, stop_requested,
              fault >>

vars == << pc, running, mcp_manager, max_iterations, inbound, arrived, outbound, msg,
           origin, session_key, messages, iteration, final_content, response,
           results_done, in_flight, pending, sessions, saved, chat_calls, tool_execs,
           before, log, stop_requested, fault, servers_up, clients, registry, starts,
           stops, mcp_started, direct, returned, stop_async_returned, mgr,
           naming, conn >>

----------------------------------------------------------------------------
(* Bounds of the model *)

\* messages ever put on the bus
MaxMsgs == 2
\* largest configured max_iterations
MaxIterations == 2
\* largest number of tool calls in one provider response
MaxToolCalls == 2
\* longest client name and longest remote tool name, in characters
MaxNameLen == 2
\* adapters registered under such names
MaxAdapters == 2
\* most content blocks in one remote result
MaxBlocks == 3
\* calls of disconnect() on one client
MaxDisconnects == 2

----------------------------------------------------------------------------
(* Text *)

Sep == ":"
\* Python's None, as a content
None == << "<None>" >>
NoMsg == [channel |-> << >>, sender_id |-> << >>, chat_id |-> << >>, content |-> << >>]

\* ":" in s
HasSep(s) == \E i \in 1..Len(s) : s[i] = Sep

FirstSep(s) == CHOOSE i \in 1..Len(s) : s[i] = Sep /\ \A j \in 1..(i - 1) : s[j] # Sep

\* a variant that splits at the last ":"
SplitLast(s) ==
    LET i == CHOOSE k \in 1..Len(s) : s[k] = Sep /\ \A j \in (k + 1)..Len(s) : s[j] # Sep
    IN  << SubSeq(s, 1, i - 1), SubSeq(s, i + 1, Len(s)) >>

\* s.split(":", 1)
Split1(s) == << SubSeq(s, 1, FirstSep(s) - 1), SubSeq(s, FirstSep(s) + 1, Len(s)) >>

\* f"{a}:{b}"
Key(a, b) == a \o << Sep >> \o b

----------------------------------------------------------------------------
(* Collaborators: bus messages, provider responses, tools *)

\* the Inbound messages put on the bus: a user message from a channel, and a
\* subagent's announcement, whose chat_id names the conversation it belongs to
InboundChoices ==
    { [channel |-> << "cli" >>, sender_id |-> << "user" >>,
       chat_id |-> << "direct" >>, content |-> << "2+2?" >>],
      [channel |-> << "system" >>, sender_id |-> << "subagent" >>,
       chat_id |-> << "cli", Sep, "direct" >>, content |-> << "task done" >>] }

OutboundMessage(channel, chat_id, content) ==
    [channel |-> channel, chat_id |-> chat_id, content |-> content]

NoOutbound == OutboundMessage(<< >>, << >>, << >>)

\* the i-th tool call of a response: ids are unique within the response
ToolNames == << "read_file", "no_such_tool", "exec" >>
ToolCall(i) == [id |-> i, name |-> ToolNames[((i - 1) % Len(ToolNames)) + 1]]
ToolCalls(n) == [i \in 1..n |-> ToolCall(i)]

\* what provider.chat can return
ProviderResponses ==
    { [content |-> c, tool_calls |-> << >>] : c \in { None, << "4" >> } }
    \cup { [content |-> << "let me check" >>, tool_calls |-> ToolCalls(n)] :
                n \in 1..MaxToolCalls }

ProviderErrors == { "provider timeout" }

\* nanobot.session: a turn of a session's history
Turn(role, content) == [role |-> role, content |-> content]

NoResponse == [content |-> None, tool_calls |-> << >>]

\* the exceptions publish_outbound can raise
BusFaults == { "TimeoutError", "RuntimeError" }

\* the exception taken for a failing publish_outbound(response): `except
\* Exception` treats every exception alike, the timeout is the one that the
\* outer `except asyncio.TimeoutError` would otherwise swallow
ReplyFaults == { "TimeoutError" }

----------------------------------------------------------------------------
(* Session store (nanobot.session.manager) *)

\* SessionManager.get_or_create(key): the cached session, or a new empty one
GetOrCreate(sess, key) ==
    IF key \in DOMAIN sess THEN sess ELSE sess @@ (key :> << >>)

\* SessionManager.save(session): persist the session's whole history
Save(store, key, hist) ==
    [k \in DOMAIN store \cup {key} |-> IF k = key THEN hist ELSE store[k]]

\* Session.get_history(): the turns as model-call messages
ModelMessage(role, content, calls, call_id, name) ==
    [role |-> role, content |-> content, tool_calls |-> calls,
     tool_call_id |-> call_id, name |-> name]

GetHistory(hist) ==
    [i \in 1..Len(hist) |-> ModelMessage(hist[i].role, hist[i].content, << >>, 0, "")]

----------------------------------------------------------------------------
(* Context builder (nanobot.agent.context) *)

\* ContextBuilder.build_messages(history, current_message)
build_messages(history, current) ==
    << ModelMessage("system", << "system prompt" >>, << >>, 0, "") >>
        \o history \o << ModelMessage("user", current, << >>, 0, "") >>

\* ContextBuilder.add_assistant_message(messages, content, tool_calls)
add_assistant_message(msgs, content, calls) ==
    Append(msgs, ModelMessage("assistant", content, calls, 0, ""))

\* ContextBuilder.add_tool_result(messages, tool_call_id, tool_name, result)
add_tool_result(msgs, call_id, name, result) ==
    Append(msgs, ModelMessage("tool", result, << >>, call_id, name))

----------------------------------------------------------------------------
(* Tool registry (nanobot.agent.tools.registry) *)

\* the names registered by _register_default_tools
DefaultTools ==
    { "read_file", "write_file", "edit_file", "list_dir", "exec",
      "web_search", "web_fetch", "message", "spawn" }

\* ToolRegistry.execute(name, params): the texts it can return; it never raises
ToolResults(name) ==
    IF name \in DefaultTools
    THEN IF name = "exec" THEN { << "Error executing ", name >> } ELSE { << "ok" >> }
    ELSE { << "Error: Tool '", name, "' not found" >> }

----------------------------------------------------------------------------
(* The remote tool manager (nanobot/mcp/client.py), the registration of its  *)
(* tools (_register_mcp_tools) and the adapter (nanobot/mcp/tools/adapter.py) *)

\* mcp_config.clients: two servers that are enabled and complete, one that is
\* switched off
McpConfig ==
    << [name |-> "fs", enabled |-> TRUE, type |-> "stdio", command |-> TRUE, url |-> FALSE],
       [name |-> "web", enabled |-> TRUE, type |-> "http", command |-> FALSE, url |-> TRUE],
       [name |-> "off", enabled |-> FALSE, type |-> "stdio", command |-> TRUE, url |-> FALSE] >>

\* _init_mcp_clients: the names of the entries the manager is created with
ClientsConfig ==
    { McpConfig[i].name : i \in { j \in 1..Len(McpConfig) :
          /\ McpConfig[j].enabled
          /\ \/ McpConfig[j].type = "stdio" /\ McpConfig[j].command
             \/ McpConfig[j].type \in { "http", "streamable_http" } /\ McpConfig[j].url } }

\* the position of a client in the manager's dict
Rank(n) == CHOOSE i \in 1..Len(McpConfig) : McpConfig[i].name = n

NoClients == [n \in {} |-> [gen |-> 0, session |-> FALSE]]

\* MCPClientManager.start(): every configured server is connected to; the one
\* that cannot be reached is logged and left as it was. gen tells the
\* connections of one start() from those of another
ManagerStart(cl, up, gen) ==
    [n \in DOMAIN cl \cup (ClientsConfig \cap up) |->
        IF n \in ClientsConfig \cap up THEN [gen |-> gen, session |-> TRUE] ELSE cl[n]]

\* the clients of the active set in the order of the dict
RECURSIVE ClientOrder(_)
ClientOrder(names) ==
    IF names = {} THEN << >>
    ELSE LET first == CHOOSE n \in names : \A o \in names : Rank(n) <= Rank(o)
         IN  << first >> \o ClientOrder(names \ { first })

\* a variant of stop() in which the first teardown that fails ends the loop:
\* the exception leaves stop() and clients.clear() is not reached
RECURSIVE StopLoopAborting(_, _, _)
StopLoopAborting(order, failing, acc) ==
    IF order = << >> THEN [acc EXCEPT !.clients = NoClients]
    ELSE LET n == Head(order)
             done == [acc EXCEPT !.attempted = @ \cup { n },
                                 !.clients[n].session = FALSE]
         IN  IF n \in failing
             THEN [done EXCEPT !.raised = TRUE]
             ELSE StopLoopAborting(Tail(order), failing, done)

\* MCPClientManager.stop(), the loop: `for name, client in list(...)`, each
\* client.disconnect() in its own try; disconnect() sets session = None even
\* when closing a context raised, and the exception is logged. After the
\* loop, clients.clear()
RECURSIVE StopLoop(_, _, _)
StopLoop(order, failing, acc) ==
    IF order = << >> THEN [acc EXCEPT !.clients = NoClients]
    ELSE LET n == Head(order)
             done == [acc EXCEPT !.attempted = @ \cup { n },
                                 !.clients[n].session = FALSE]
         IN  StopLoop(Tail(order), failing,
                      IF n \in failing THEN [done EXCEPT !.logged = @ \cup { n }] ELSE done)

\* MCPClientManager.stop() when the teardown of the clients in `failing` fails
ManagerStopOutcome(cl, failing) ==
    StopLoop(ClientOrder(DOMAIN cl), failing,
             [clients |-> cl, attempted |-> {}, logged |-> {}, raised |-> FALSE])

\* MCPClientManager.stop(): every client is disconnected, then clients.clear()
ManagerStop(cl) == ManagerStopOutcome(cl, {}).clients

\* MCPClientManager.stop() abandoned after k clients: they are disconnected
\* (session = None), clients.clear() is not reached
ManagerStopAbandoned(cl, k) ==
    [n \in DOMAIN cl |->
        IF Cardinality({ o \in DOMAIN cl : Rank(o) <= Rank(n) }) <= k
        THEN [cl[n] EXCEPT !.session = FALSE]
        ELSE cl[n]]

\* the tools a server lists: both servers have a tool called search
ServerTools(n) == IF n = "fs" THEN { "search", "read" } ELSE { "search" }

\* a variant of list_tools() without the `try ... except Exception`
ListToolsUnguarded(n, cl, list_down) ==
    IF ~cl[n].session THEN [raised |-> FALSE, tools |-> {}]
    ELSE IF n \in list_down THEN [raised |-> TRUE, tools |-> {}]
    ELSE [raised |-> FALSE, tools |-> ServerTools(n)]

\* MCPClient.list_tools(): [] without a session, [] when the request raises
\* (the servers in list_down), the tools of the response otherwise
ListTools(n, cl, list_down) ==
    IF ~cl[n].session THEN [raised |-> FALSE, tools |-> {}]
    ELSE IF n \in list_down THEN [raised |-> FALSE, tools |-> {}]
    ELSE [raised |-> FALSE, tools |-> ServerTools(n)]

\* MCPClientManager.list_all_tools(): client.list_tools() for one client of
\* the dict after another; an exception would leave the loop with the
\* entries made so far lost to the caller
ListAllTools(cl, list_down) ==
    LET order == ClientOrder(DOMAIN cl)
        failed == { i \in 1..Len(order) : ListTools(order[i], cl, list_down).raised }
    IN  IF failed = {}
        THEN [raised |-> FALSE,
              listing |-> [n \in DOMAIN cl |-> ListTools(n, cl, list_down).tools]]
        ELSE [raised |-> TRUE, listing |-> [n \in {} |-> {}]]

\* the characters of names: a letter and the underscore
NameChars == { "a", "_" }

\* the non-empty names of at most MaxNameLen characters
Names == UNION { [1..k -> NameChars] : k \in 1..MaxNameLen }

\* MCPToolAdapter.name for any client and tool, character by character:
\* f"mcp_{client_name}_{_name}"
ExposedName(client_name, name) ==
    << "m", "c", "p", "_" >> \o client_name \o << "_" >> \o name

\* a variant of the name without the client's name in it
AdapterNameNoClient(n, t) == IF t = "search" THEN "mcp_search" ELSE "mcp_read"

\* MCPToolAdapter.name: f"mcp_{client_name}_{_name}", written out as one
\* string for the clients and tools of the configuration
AdapterName(n, t) ==
    IF n = "fs"
    THEN IF t = "search" THEN "mcp_fs_search" ELSE "mcp_fs_read"
    ELSE IF t = "search" THEN "mcp_web_search" ELSE "mcp_web_read"

\* MCPToolAdapter(client_name, tool_def, client.session): the adapter keeps
\* the client's name, the tool's own name and the session of that moment
Adapter(n, t, cl) == [client |-> n, tool |-> t, gen |-> cl[n].gen]

\* _register_mcp_tools, the loops over all_tools.items() and over the tools
\* of a client: tools.register(adapter) stores the adapter under its name, and
\* a registration under a name in use replaces the one before
RegisterListed(reg, cl, listing) ==
    LET pairs == UNION { { << n, t >> : t \in listing[n] } : n \in DOMAIN listing }
        names == { AdapterName(pr[1], pr[2]) : pr \in pairs }
        last(nm) == CHOOSE pr \in pairs :
                        /\ AdapterName(pr[1], pr[2]) = nm
                        /\ \A o \in pairs : AdapterName(o[1], o[2]) = nm => Rank(o[1]) <= Rank(pr[1])
    IN  [nm \in DOMAIN reg \cup names |->
            IF nm \in names THEN Adapter(last(nm)[1], last(nm)[2], cl) ELSE reg[nm]]

\* _register_mcp_tools: an adapter is registered for every tool that
\* list_all_tools() returns; a client without session lists no tool
RegisterMcpTools(reg, cl) == RegisterListed(reg, cl, ListAllTools(cl, {}).listing)

\* "\n".join(parts)
RECURSIVE JoinLines(_)
JoinLines(parts) ==
    IF parts = << >> THEN << >>
    ELSE IF Len(parts) = 1 THEN parts[1]
    ELSE parts[1] \o << "\n" >> \o JoinLines(Tail(parts))

\* str(item) of a dict item
Repr(item) == << "{'type': '", item.type, "'}" >>

\* a variant that renders every content item with str(item)
ItemTextRepr(item) == Repr(item)

\* MCPToolAdapter.execute: the text of one content item
ItemText(item) ==
    IF item.type = "text" THEN item.text
    ELSE IF item.type = "resource" THEN << "Resource: " >> \o item.uri
    ELSE Repr(item)

\* the session an adapter holds is the one its client has now
Live(ad, cl) ==
    /\ ad.client \in DOMAIN cl
    /\ cl[ad.client].gen = ad.gen
    /\ cl[ad.client].session

\* what client_session.call_tool does on the session of adapter ad: it
\* returns a result with a list of content items, or it raises; on a
\* connection that is no longer the client's live one it can only raise
CallToolOutcomes(ad, cl) ==
    { [raised |-> TRUE, value |-> << >>, error |-> "connection closed"] }
    \cup IF Live(ad, cl)
         THEN { [raised |-> FALSE, error |-> "",
                 value |-> << [type |-> "text", text |-> << "2 hits" >>, uri |-> << >>, str |-> TRUE],
                              [type |-> "resource", text |-> << >>, uri |-> << "file:a" >>, str |-> TRUE] >>] }
         ELSE {}

\* the same with a result the normalisation cannot join: a text item whose
\* text is not a str
CallToolOutcomesAny(ad, cl) ==
    CallToolOutcomes(ad, cl)
    \cup IF Live(ad, cl)
         THEN { [raised |-> FALSE, error |-> "",
                 value |-> << [type |-> "text", text |-> << >>, uri |-> << >>, str |-> FALSE] >>] }
         ELSE {}

\* the extraction of the content: "\n".join(parts) raises TypeError on a part
\* that is not a str
Normalise(value) ==
    IF \E i \in 1..Len(value) : value[i].type = "text" /\ ~value[i].str
    THEN [raised |-> TRUE, error |-> "expected str instance", text |-> << >>]
    ELSE [raised |-> FALSE, error |-> "",
          text |-> JoinLines([i \in 1..Len(value) |-> ItemText(value[i])])]

\* json.dumps(result, indent=2) of a dict with one entry
Dump(text) == << "{", "\n", "  " >> \o text \o << "\n", "}" >>

\* MCPToolAdapter.execute, the whole extraction: a dict with a content list,
\* with a content string or without content, a list, or anything else
\* (str(result), which for a str is the str)
ResultText(result) ==
    IF result.shape = "content_list" THEN Normalise(result.blocks)
    ELSE [raised |-> FALSE, error |-> "",
          text |-> IF result.shape = "content_str" THEN result.text
                   ELSE IF result.shape = "no_content" THEN Dump(result.text)
                   ELSE IF result.shape = "list"
                   THEN JoinLines([i \in 1..Len(result.blocks) |-> Repr(result.blocks[i])])
                   ELSE result.text]

\* what tools.execute hands back to the loop: a text, or an exception
Returns(text) == [raised |-> FALSE, text |-> text]
Raises(e) == [raised |-> TRUE, text |-> << e >>]

\* a variant without the `try ... except Exception` around the call
AdapterExecuteUnguarded(o) ==
    IF o.raised
    THEN Raises(o.error)
    ELSE IF Normalise(o.value).raised
    THEN Raises(Normalise(o.value).error)
    ELSE Returns(Normalise(o.value).text)

\* a variant whose try block ends after the call: the extraction of the
\* content is outside it
AdapterExecuteGuardsCallOnly(o) ==
    IF o.raised
    THEN Returns(<< "Error: ", o.error >>)
    ELSE IF Normalise(o.value).raised
    THEN Raises(Normalise(o.value).error)
    ELSE Returns(Normalise(o.value).text)

\* MCPToolAdapter.execute: the items of the result joined by newlines; an
\* exception of the call or of the extraction becomes f"Error: {str(e)}"
AdapterExecute(o) ==
    IF o.raised
    THEN Returns(<< "Error: ", o.error >>)
    ELSE IF Normalise(o.value).raised
    THEN Returns(<< "Error: ", Normalise(o.value).error >>)
    ELSE Returns(Normalise(o.value).text)

\* ToolRegistry.execute(name, params) with the remote tools registered: the
\* adapter for a remote tool, the built-in tool or the not-found text otherwise
Execute(name, reg, cl) ==
    IF name \in DOMAIN reg
    THEN { AdapterExecute(o) : o \in CallToolOutcomes(reg[name], cl) }
    ELSE { Returns(t) : t \in ToolResults(name) }

----------------------------------------------------------------------------
(* AgentLoop._process_message / _process_system_message: the pure parts *)

\* msg.channel == "system"
IsSystem(m) == m.channel = << "system" >>

\* a variant without the default channel
OriginNoDefault(m) ==
    IF IsSystem(m) /\ HasSep(m.chat_id) THEN Split1(m.chat_id) ELSE << m.channel, m.chat_id >>

\* the (channel, chat_id) the reply goes to: the message's own for a normal
\* message, the origin parsed from chat_id for a system message
Origin(m) ==
    IF IsSystem(m)
    THEN IF HasSep(m.chat_id) THEN Split1(m.chat_id) ELSE << << "cli" >>, m.chat_id >>
    ELSE << m.channel, m.chat_id >>

\* InboundMessage.session_key
InboundSessionKey(m) == Key(m.channel, m.chat_id)

\* the key of the session a message is processed in
SessionKey(m) ==
    IF IsSystem(m) THEN Key(Origin(m)[1], Origin(m)[2]) ELSE InboundSessionKey(m)

\* the content of the user turn saved for a message
UserTurnContent(m) ==
    IF IsSystem(m)
    THEN << "[System: " >> \o m.sender_id \o << "] " >> \o m.content
    ELSE m.content

\* the text that replaces a final_content of None
Fallback(m) ==
    IF IsSystem(m)
    THEN << "Background task completed." >>
    ELSE << "I've completed processing but have no response to give." >>

\* a variant that records the user turn as soon as the session is resolved
ResolveSessionEager(sess, key, m) ==
    [GetOrCreate(sess, key) EXCEPT ![key] = Append(@, Turn("user", UserTurnContent(m)))]

\* session = self.sessions.get_or_create(key): nothing is added before the loop
ResolveSession(sess, key, m) == GetOrCreate(sess, key)

\* a variant with an off-by-one loop guard
LoopContinuesInclusive(it) == it <= max_iterations

\* while iteration < self.max_iterations
LoopContinues(it) == it < max_iterations

\* response.has_tool_calls
has_tool_calls(resp) == Len(resp.tool_calls) > 0

\* a variant without the fallback
FinalContentUnchecked(fc, m) == fc

\* if final_content is None: final_content = <fallback text>
FinalContent(fc, m) == IF fc = None THEN Fallback(m) ELSE fc

\* a variant that forgets the user turn
AddTurnsAssistantOnly(hist, m, content) ==
    hist \o << Turn("assistant", content) >>

\* session.add_message("user", ...); session.add_message("assistant", final_content)
AddTurns(hist, m, content) ==
    hist \o << Turn("user", UserTurnContent(m)), Turn("assistant", content) >>

\* a variant that ties every result to the first tool call's id
AppendToolResultFirstId(msgs, calls, i, result) ==
    add_tool_result(msgs, calls[1].id, calls[i].name, result)

\* messages = self.context.add_tool_result(messages, tool_call.id, tool_call.name, result)
AppendToolResult(msgs, calls, i, result) ==
    add_tool_result(msgs, calls[i].id, calls[i].name, result)

\* a variant that starts all the remaining tool calls at once
LaunchAll(calls, done) == (done + 1)..Len(calls)

\* for tool_call in response.tool_calls: result = await self.tools.execute(...):
\* the executions to start once `done` results are appended and none is in flight
Launch(calls, done) == IF done < Len(calls) THEN {done + 1} ELSE {}

\* a variant that always answers on the default channel
ErrorEnvelopeToCli(m, e) ==
    OutboundMessage(<< "cli" >>, m.chat_id, << "Sorry, I encountered an error: ", e >>)

\* OutboundMessage(channel=msg.channel, chat_id=msg.chat_id,
\*                 content=f"Sorry, I encountered an error: {str(e)}")
ErrorEnvelope(m, e) ==
    OutboundMessage(m.channel, m.chat_id, << "Sorry, I encountered an error: ", e >>)

----------------------------------------------------------------------------
(* Initial state: the loop is constructed, run() is scheduled, the bus is empty *)

NoSessions == [k \in {} |-> << >>]

LogEntry(m) ==
    [msg |-> m, raised |-> "None", error |-> "None", reply |-> NoOutbound,
     error_reply |-> NoOutbound, error_fault |-> "None"]

NoRegistry == [nm \in {} |-> [client |-> "", tool |-> "", gen |-> 0]]

\* process_direct() is not running
NoDirect ==
    [pc |-> "idle", calls |-> 0, during_run |-> FALSE, msg |-> NoMsg, messages |-> << >>,
     iteration |-> 0, response |-> NoResponse, results_done |-> 0, in_flight |-> {},
     chat_calls |-> 0, tool_execs |-> 0, outcome |-> Returns(<< >>)]

\* process_direct() has not returned yet
NoReturn == [raised |-> FALSE, text |-> << >>, teardown |-> "None"]

\* no operation has been made on the manager on its own
NoCall == [client |-> "", tool |-> "", gen |-> 0]

\* no adapter registered
NoNaming == [pairs |-> {}, tools |-> [nm \in {} |-> << >>]]

\* MCPClient.__init__: no session and no contexts; nothing is open and no
\* context has been exited
NoConn ==
    [op |-> "None", type |-> "stdio", silent |-> FALSE, args |-> FALSE, server |-> "None",
     raised |-> FALSE, session |-> FALSE, session_context |-> FALSE,
     transport_context |-> FALSE, session_open |-> FALSE, transport_open |-> FALSE,
     session_exits |-> 0, transport_exits |-> 0, disconnects |-> 0, called_on |-> "None"]

\* no client configured
NoConfig == [n \in {} |-> << >>]

\* no remote result
NoResult == [shape |-> "None", text |-> << >>, blocks |-> << >>]

\* what the caller of the manager has seen of its last call
NoMgr ==
    [op |-> "None", failing |-> {}, raised |-> FALSE,
     listing |-> [n \in {} |-> {}], active_before |-> {}, attempted |-> {},
     name |-> "", called |-> NoCall, outcome |-> "None", out |-> Returns(<< >>),
     result |-> NoResult, config |-> NoConfig, active |-> {}]

Init ==
    /\ pc = "scheduled"
    /\ running = FALSE
    /\ mcp_manager = "created"
    /\ max_iterations \in 1..MaxIterations
    /\ inbound = << >>
    /\ arrived = 0
    /\ outbound = << >>
    /\ msg = NoMsg
    /\ origin = << << >>, << >> >>
    /\ session_key = << >>
    /\ messages = << >>
    /\ iteration = 0
    /\ final_content = None
    /\ response = NoResponse
    /\ results_done = 0
    /\ in_flight = {}
    /\ pending = NoOutbound
    /\ sessions = NoSessions
    /\ saved = NoSessions
    /\ chat_calls = 0
    /\ tool_execs = 0
    /\ before = [sessions |-> NoSessions, saved |-> NoSessions]
    /\ log = << >>
    /\ stop_requested = FALSE
    /\ fault = "None"
    /\ servers_up = ClientsConfig
    /\ clients = NoClients
    /\ registry = NoRegistry
    /\ starts = 0
    /\ stops = 0
    /\ mcp_started = FALSE
    /\ direct = NoDirect
    /\ returned = NoReturn
    /\ stop_async_returned = FALSE
    /\ naming = NoNaming
    /\ conn = NoConn
    /\ mgr = NoMgr

----------------------------------------------------------------------------
(* Fragments of run() and _process_message shared by several actions *)

\* run(): back at `while self._running`, then either the next wait_for or the
\* code after the loop
LoopTop ==
    IF running
    THEN pc' = "consume"
    ELSE IF mcp_manager # "None" THEN pc' = "mcp_stop" ELSE pc' = "stopped"

\* run(): the iteration is over: msg and the locals of _process_message are gone
EndIteration ==
    /\ msg' = NoMsg
    /\ origin' = << << >>, << >> >>
    /\ session_key' = << >>
    /\ messages' = << >>
    /\ iteration' = 0
    /\ final_content' = None
    /\ response' = NoResponse
    /\ results_done' = 0
    /\ chat_calls' = 0
    /\ tool_execs' = 0
    /\ before' = [sessions |-> NoSessions, saved |-> NoSessions]
    /\ pending' = NoOutbound

\* _process_message: the code after the call/execute loop, up to the await of
\* publish_outbound in run()
Finish(m, key, fc, sess) ==
    LET content == FinalContent(fc, m)
        hist == AddTurns(sess[key], m, content)
    IN  /\ final_content' = content
        /\ sessions' = [sess EXCEPT ![key] = hist]
        /\ saved' = Save(saved, key, hist)
        /\ pending' = OutboundMessage(Origin(m)[1], Origin(m)[2], content)
        /\ pc' = "publishing"

\* a variant whose call/execute loop looks at the flag: once it is cleared the
\* message is abandoned and run() goes on to its teardown
CallOrFinishChecksFlag(m, key, it, calls, sess) ==
    IF ~running
    THEN /\ iteration' = it
         /\ chat_calls' = calls
         /\ pc' = IF mcp_manager # "None" THEN "mcp_stop" ELSE "stopped"
         /\ final_content' = None
         /\ sessions' = sess
         /\ UNCHANGED << saved, pending >>
    ELSE IF LoopContinues(it)
    THEN /\ iteration' = it + 1
         /\ chat_calls' = calls + 1
         /\ pc' = "calling"
         /\ final_content' = None
         /\ sessions' = sess
         /\ UNCHANGED << saved, pending >>
    ELSE /\ iteration' = it
         /\ chat_calls' = calls
         /\ Finish(m, key, None, sess)

\* _process_message: the head of the call/execute loop: the next provider.chat
\* call, or the code after the loop when the budget is used up
CallOrFinish(m, key, it, calls, sess) ==
    IF LoopContinues(it)
    THEN /\ iteration' = it + 1
         /\ chat_calls' = calls + 1
         /\ pc' = "calling"
         /\ final_content' = None
         /\ sessions' = sess
         /\ UNCHANGED << saved, pending >>
    ELSE /\ iteration' = it
         /\ chat_calls' = calls
         /\ Finish(m, key, None, sess)

----------------------------------------------------------------------------
(* Actions *)

\* a variant that enters the loop without starting the manager
RunStartSkipsManager ==
    /\ pc = "scheduled"
    /\ running' = TRUE
    /\ pc' = "consume"
    /\ UNCHANGED << servers_up, unit_vars, mcp_vars, direct_vars >>
    /\ UNCHANGED << mcp_manager, max_iterations, inbound, arrived, outbound, msg, origin,
                    session_key, messages, iteration, final_content, response,
                    results_done, in_flight, pending, sessions, saved, chat_calls,
                    tool_execs, before, log, stop_requested, fault >>

\* run(): self._running = True, then the await of the manager's start, or the
\* first wait_for
RunStart ==
    /\ pc = "scheduled"
    /\ running' = TRUE
    /\ pc' = IF mcp_manager # "None" THEN "mcp_start" ELSE "consume"
    /\ UNCHANGED << servers_up, unit_vars, mcp_vars, direct_vars >>
    /\ UNCHANGED << mcp_manager, max_iterations, inbound, arrived, outbound, msg, origin,
                    session_key, messages, iteration, final_content, response,
                    results_done, in_flight, pending, sessions, saved, chat_calls,
                    tool_execs, before, log, stop_requested, fault >>

\* run(): self._mcp_manager.start() and _register_mcp_tools() return
McpStart ==
    /\ pc = "mcp_start"
    /\ mcp_manager' = "started"
    /\ clients' = ManagerStart(clients, servers_up, starts + 1)
    /\ registry' = RegisterMcpTools(registry, clients')
    /\ starts' = starts + 1
    /\ LoopTop
    /\ UNCHANGED << servers_up, unit_vars, stops, direct_vars >>
    /\ UNCHANGED << running, max_iterations, inbound, arrived, outbound, msg, origin,
                    session_key, messages, iteration, final_content, response,
                    results_done, in_flight, pending, sessions, saved, chat_calls,
                    tool_execs, before, log, stop_requested, fault >>

\* run(): self._mcp_manager.stop() returns or raises (logged), after the loop
McpStop ==
    /\ pc = "mcp_stop"
    /\ mcp_manager' = "stopped"
    /\ clients' = ManagerStop(clients)
    /\ stops' = stops + 1
    /\ pc' = "stopped"
    /\ UNCHANGED << servers_up, unit_vars, registry, starts, direct_vars >>
    /\ UNCHANGED << running, max_iterations, inbound, arrived, outbound, msg, origin,
                    session_key, messages, iteration, final_content, response,
                    results_done, in_flight, pending, sessions, saved, chat_calls,
                    tool_execs, before, log, stop_requested, fault >>

\* stop(), called from another task
Stop ==
    /\ ~stop_requested
    /\ pc \notin { "stopped", "crashed" }
    /\ running' = FALSE
    /\ stop_requested' = TRUE
    /\ UNCHANGED << servers_up, unit_vars, mcp_vars, direct_vars >>
    /\ UNCHANGED << pc, mcp_manager, max_iterations, inbound, arrived, outbound, msg,
                    origin, session_key, messages, iteration, final_content, response,
                    results_done, in_flight, pending, sessions, saved, chat_calls,
                    tool_execs, before, log, fault >>

\* a channel or a subagent puts a message on the bus. run() looks at the queue
\* only in its wait_for, so a message that arrives while another is processed
\* is the same to it as one that arrives right after
BusPublishInbound(m) ==
    /\ arrived < MaxMsgs
    /\ pc \in { "scheduled", "mcp_start", "consume" }
    /\ inbound' = Append(inbound, m)
    /\ arrived' = arrived + 1
    /\ UNCHANGED << servers_up, unit_vars, mcp_vars, direct_vars >>
    /\ UNCHANGED << pc, running, mcp_manager, max_iterations, outbound, msg, origin,
                    session_key, messages, iteration, final_content, response,
                    results_done, in_flight, pending, sessions, saved, chat_calls,
                    tool_execs, before, log, stop_requested, fault >>

\* run(): wait_for(consume_inbound(), 1.0) times out: continue
ConsumeTimeout ==
    /\ pc = "consume"
    /\ inbound = << >>
    /\ LoopTop
    /\ UNCHANGED << servers_up, unit_vars, mcp_vars, direct_vars >>
    /\ UNCHANGED << running, mcp_manager, max_iterations, inbound, arrived, outbound, msg,
                    origin, session_key, messages, iteration, final_content, response,
                    results_done, in_flight, pending, sessions, saved, chat_calls,
                    tool_execs, before, log, stop_requested, fault >>

\* run(): consume_inbound() raises something that is not a timeout: nothing in
\* run() catches it
ConsumeFault ==
    /\ pc = "consume"
    /\ pc' = "crashed"
    /\ fault' = "RuntimeError"
    /\ UNCHANGED << servers_up, unit_vars, mcp_vars, direct_vars >>
    /\ UNCHANGED << running, mcp_manager, max_iterations, inbound, arrived, outbound, msg,
                    origin, session_key, messages, iteration, final_content, response,
                    results_done, in_flight, pending, sessions, saved, chat_calls,
                    tool_execs, before, log, stop_requested >>

\* run(): a message is consumed; _process_message routes it, resolves its
\* session, builds the messages and makes the first provider call
ConsumeMessage ==
    /\ pc = "consume"
    /\ inbound # << >>
    /\ LET m == Head(inbound)
           key == SessionKey(m)
           sess == ResolveSession(sessions, key, m)
       IN  /\ msg' = m
           /\ inbound' = Tail(inbound)
           /\ origin' = Origin(m)
           /\ session_key' = key
           /\ before' = [sessions |-> GetOrCreate(sessions, key), saved |-> saved]
           /\ messages' = build_messages(GetHistory(sess[key]), m.content)
           /\ response' = NoResponse
           /\ results_done' = 0
           /\ in_flight' = {}
           /\ tool_execs' = 0
           /\ log' = Append(log, LogEntry(m))
           /\ CallOrFinish(m, key, 0, 0, sess)
    /\ UNCHANGED << servers_up, unit_vars, mcp_vars, direct_vars >>
    /\ UNCHANGED << running, mcp_manager, max_iterations, arrived, outbound,
                    stop_requested, fault >>

\* provider.chat returns a response with tool calls: the assistant message is
\* added and the first tool execution starts
ChatReturnTools(resp) ==
    /\ pc = "calling"
    /\ has_tool_calls(resp)
    /\ response' = resp
    /\ messages' = add_assistant_message(messages, resp.content, resp.tool_calls)
    /\ results_done' = 0
    /\ in_flight' = Launch(resp.tool_calls, 0)
    /\ tool_execs' = tool_execs + Cardinality(in_flight')
    /\ pc' = "executing"
    /\ UNCHANGED << servers_up, unit_vars, mcp_vars, direct_vars >>
    /\ UNCHANGED << running, mcp_manager, max_iterations, inbound, arrived, outbound, msg,
                    origin, session_key, iteration, final_content, pending, sessions,
                    saved, chat_calls, before, log, stop_requested, fault >>

\* provider.chat returns a response without tool calls: break, save the turn,
\* hand the reply to publish_outbound
ChatReturnFinal(resp) ==
    /\ pc = "calling"
    /\ ~has_tool_calls(resp)
    /\ response' = resp
    /\ Finish(msg, session_key, resp.content, sessions)
    /\ UNCHANGED << servers_up, unit_vars, mcp_vars, direct_vars >>
    /\ UNCHANGED << running, mcp_manager, max_iterations, inbound, arrived, outbound, msg,
                    origin, session_key, messages, iteration, results_done, in_flight,
                    chat_calls, tool_execs, before, log, stop_requested, fault >>

\* a variant without the `try ... except Exception` around the processing
ChatRaiseEscapes(e) ==
    /\ pc = "calling"
    /\ pc' = "crashed"
    /\ fault' = e
    /\ UNCHANGED << servers_up, unit_vars, mcp_vars, direct_vars >>
    /\ UNCHANGED << running, mcp_manager, max_iterations, inbound, arrived, outbound, msg,
                    origin, session_key, messages, iteration, final_content, response,
                    results_done, in_flight, pending, sessions, saved, chat_calls,
                    tool_execs, before, log, stop_requested >>

\* provider.chat raises: run()'s `except Exception` builds the error reply and
\* hands it to publish_outbound
ChatRaise(e) ==
    /\ pc = "calling"
    /\ pc' = "handler"
    /\ pending' = ErrorEnvelope(msg, e)
    /\ log' = [log EXCEPT ![Len(log)].raised = "chat", ![Len(log)].error = e]
    /\ UNCHANGED << servers_up, unit_vars, mcp_vars, direct_vars >>
    /\ UNCHANGED << running, mcp_manager, max_iterations, inbound, arrived, outbound, msg,
                    origin, session_key, messages, iteration, final_content, response,
                    results_done, in_flight, sessions, saved, chat_calls, tool_execs,
                    before, stop_requested, fault >>

\* tools.execute returns for tool call i: its result is added, then the next
\* tool call starts, or the loop goes round, or the turn is saved
ToolReturn(i, result) ==
    /\ pc = "executing"
    /\ i \in in_flight
    /\ result \in ToolResults(response.tool_calls[i].name)
    /\ LET done == results_done + 1
           rest == in_flight \ {i}
           next == IF rest = {} THEN Launch(response.tool_calls, done) ELSE rest
       IN  /\ messages' = AppendToolResult(messages, response.tool_calls, i, result)
           /\ results_done' = done
           /\ in_flight' = next
           /\ IF next # {}
              THEN /\ tool_execs' = tool_execs + Cardinality(next \ rest)
                   /\ UNCHANGED << pc, iteration, final_content, pending, sessions,
                                   saved, chat_calls >>
              ELSE /\ tool_execs' = tool_execs
                   /\ CallOrFinish(msg, session_key, iteration, chat_calls, sessions)
    /\ UNCHANGED << servers_up, unit_vars, mcp_vars, direct_vars >>
    /\ UNCHANGED << running, mcp_manager, max_iterations, inbound, arrived, outbound, msg,
                    origin, session_key, response, before, log, stop_requested, fault >>

\* run(): publish_outbound(response) returns
PublishReturn ==
    /\ pc = "publishing"
    /\ outbound' = Append(outbound, pending)
    /\ log' = [log EXCEPT ![Len(log)].reply = pending]
    /\ EndIteration
    /\ LoopTop
    /\ UNCHANGED << servers_up, unit_vars, mcp_vars, direct_vars >>
    /\ UNCHANGED << running, mcp_manager, max_iterations, inbound, arrived, in_flight,
                    sessions, saved, stop_requested, fault >>

\* run(): publish_outbound(response) raises: `except Exception` catches it (a
\* TimeoutError too) and hands the error reply to publish_outbound
PublishFault(e) ==
    /\ pc = "publishing"
    /\ pc' = "handler"
    /\ pending' = ErrorEnvelope(msg, e)
    /\ log' = [log EXCEPT ![Len(log)].raised = "publish", ![Len(log)].error = e]
    /\ UNCHANGED << servers_up, unit_vars, mcp_vars, direct_vars >>
    /\ UNCHANGED << running, mcp_manager, max_iterations, inbound, arrived, outbound, msg,
                    origin, session_key, messages, iteration, final_content, response,
                    results_done, in_flight, sessions, saved, chat_calls, tool_execs,
                    before, stop_requested, fault >>

\* run(): the publish_outbound of the error reply returns
HandlerPublishReturn ==
    /\ pc = "handler"
    /\ outbound' = Append(outbound, pending)
    /\ log' = [log EXCEPT ![Len(log)].error_reply = pending]
    /\ EndIteration
    /\ LoopTop
    /\ UNCHANGED << servers_up, unit_vars, mcp_vars, direct_vars >>
    /\ UNCHANGED << running, mcp_manager, max_iterations, inbound, arrived, in_flight,
                    sessions, saved, stop_requested, fault >>

\* run(): the publish_outbound of the error reply raises: `except
\* asyncio.TimeoutError: continue` catches a timeout, nothing catches the rest
HandlerPublishFault(e) ==
    /\ pc = "handler"
    /\ log' = [log EXCEPT ![Len(log)].error_fault = e]
    /\ EndIteration
    /\ IF e = "TimeoutError"
       THEN LoopTop /\ fault' = fault
       ELSE pc' = "crashed" /\ fault' = e
    /\ UNCHANGED << servers_up, unit_vars, mcp_vars, direct_vars >>
    /\ UNCHANGED << running, mcp_manager, max_iterations, inbound, arrived, outbound,
                    in_flight, sessions, saved, stop_requested >>

Next ==
    \/ RunStart
    \/ McpStart
    \/ McpStop
    \/ Stop
    \/ \E m \in InboundChoices : BusPublishInbound(m)
    \/ ConsumeTimeout
    \/ ConsumeFault
    \/ ConsumeMessage
    \/ \E resp \in ProviderResponses : ChatReturnTools(resp)
    \/ \E resp \in ProviderResponses : ChatReturnFinal(resp)
    \/ \E e \in ProviderErrors : ChatRaise(e)
    \/ \E i \in 1..MaxToolCalls, name \in { ToolNames[k] : k \in 1..Len(ToolNames) } :
          \E result \in ToolResults(name) : ToolReturn(i, result)
    \/ PublishReturn
    \/ \E e \in ReplyFaults : PublishFault(e)
    \/ HandlerPublishReturn
    \/ \E e \in BusFaults : HandlerPublishFault(e)

Spec == Init /\ [][Next]_vars

\* stop_async(), awaited by another task: it clears the flag and logs, and has
\* no await in its body, so it returns in the same step
StopAsync ==
    /\ ~stop_async_returned
    /\ pc \notin { "stopped", "crashed" }
    /\ running' = FALSE
    /\ stop_async_returned' = TRUE
    /\ UNCHANGED << servers_up, mgr, naming, conn, mcp_vars, direct_vars >>
    /\ UNCHANGED << pc, mcp_manager, max_iterations, inbound, arrived, outbound, msg,
                    origin, session_key, messages, iteration, final_content, response,
                    results_done, in_flight, pending, sessions, saved, chat_calls,
                    tool_execs, before, log, stop_requested, fault >>

NextStopAsync ==
    \/ Next
    \/ StopAsync

\* run() with the callers of stop() and of stop_async()
SpecStopAsync == Init /\ [][NextStopAsync]_vars

\* the steps of the run() task: the event loop resumes the task once the
\* call it awaits has returned or raised
RunStep ==
    \/ RunStart
    \/ McpStart
    \/ McpStop
    \/ ConsumeTimeout
    \/ ConsumeFault
    \/ ConsumeMessage
    \/ \E resp \in ProviderResponses : ChatReturnTools(resp)
    \/ \E resp \in ProviderResponses : ChatReturnFinal(resp)
    \/ \E e \in ProviderErrors : ChatRaise(e)
    \/ \E i \in 1..MaxToolCalls, name \in { ToolNames[k] : k \in 1..Len(ToolNames) } :
          \E result \in ToolResults(name) : ToolReturn(i, result)
    \/ PublishReturn
    \/ \E e \in ReplyFaults : PublishFault(e)
    \/ HandlerPublishReturn
    \/ \E e \in BusFaults : HandlerPublishFault(e)

\* run() with every awaited call coming back: the wait_for on the bus ends
\* within its second, the provider, the tools and the bus return or raise
SpecLive == Init /\ [][Next]_vars /\ WF_vars(RunStep)

\* the steps of the run() task in which the awaited call returns: no
\* scheduling makes the bus, the provider or a tool raise
RunReturns ==
    \/ RunStart
    \/ McpStart
    \/ McpStop
    \/ ConsumeTimeout
    \/ ConsumeMessage
    \/ \E resp \in ProviderResponses : ChatReturnTools(resp)
    \/ \E resp \in ProviderResponses : ChatReturnFinal(resp)
    \/ \E i \in 1..MaxToolCalls, name \in { ToolNames[k] : k \in 1..Len(ToolNames) } :
          \E result \in ToolResults(name) : ToolReturn(i, result)
    \/ PublishReturn
    \/ HandlerPublishReturn

\* run() resumed by the event loop whenever its awaited call can return; a
\* timeout of the wait on an empty bus with the flag set changes nothing, so
\* polling for ever is a behaviour that stays in pc = "consume"
SpecPolling == Init /\ [][Next]_vars /\ WF_vars(RunReturns)

----------------------------------------------------------------------------
(* process_direct(): a second task of the same AgentLoop. Its actions are the *)
(* code between two of its awaits; it shares the session store, the manager  *)
(* and the registry with run()                                               *)

\* the names of the tool calls the provider makes when it is given the remote
\* tools
DirectToolNames == << "mcp_fs_search", "exec", "no_such_tool" >>
DirectToolCall(i) == [id |-> i, name |-> DirectToolNames[((i - 1) % Len(DirectToolNames)) + 1]]

\* what provider.chat can return to process_direct()
DirectResponses ==
    { [content |-> c, tool_calls |-> << >>] : c \in { None, << "4" >> } }
    \cup { [content |-> << "let me search" >>,
            tool_calls |-> [i \in 1..n |-> DirectToolCall(i)]] : n \in 1..MaxToolCalls }

\* the contents process_direct() is called with
DirectContents == { << "2+2?" >> }

\* InboundMessage(channel="cli", sender_id="user", chat_id="direct", content=content)
DirectMessage(content) ==
    [channel |-> << "cli" >>, sender_id |-> << "user" >>, chat_id |-> << "direct" >>,
     content |-> content]

\* what stop() can be abandoned with inside wait_for(..., timeout=2.0)
TeardownFaults == { "TimeoutError", "CancelledError" }

\* the positions of run() at which it has started the manager and not yet
\* left its loop
RunLoop == { "consume", "calling", "executing", "publishing", "handler" }

\* process_direct(): the `finally` clause, entered with the result or the
\* exception of the `try` block: the await of the manager's stop(), or the
\* return to the caller
DirectFinally(d, started) ==
    IF mcp_manager # "None" /\ started
    THEN /\ direct' = [d EXCEPT !.pc = "mcp_stop"]
         /\ returned' = returned
    ELSE /\ direct' = [NoDirect EXCEPT !.calls = d.calls]
         /\ returned' = [raised |-> d.outcome.raised, text |-> d.outcome.text,
                         teardown |-> "None"]

\* _process_message: the code after the call/execute loop, then
\* `return response.content`
DirectFinish(d, fc, sess, started) ==
    LET content == FinalContent(fc, d.msg)
        key == SessionKey(d.msg)
        hist == AddTurns(sess[key], d.msg, content)
    IN  /\ sessions' = [sess EXCEPT ![key] = hist]
        /\ saved' = Save(saved, key, hist)
        /\ DirectFinally([d EXCEPT !.outcome = Returns(content)], started)

\* _process_message: the head of the call/execute loop
DirectCallOrFinish(d, sess, started) ==
    IF LoopContinues(d.iteration)
    THEN /\ direct' = [d EXCEPT !.iteration = @ + 1, !.chat_calls = @ + 1, !.pc = "calling"]
         /\ sessions' = sess
         /\ UNCHANGED << saved, returned >>
    ELSE DirectFinish(d, None, sess, started)

\* process_direct(): the `try` block up to the first provider call
DirectBegin(d, started) ==
    LET key == SessionKey(d.msg)
        sess == ResolveSession(sessions, key, d.msg)
    IN  DirectCallOrFinish(
            [d EXCEPT !.messages = build_messages(GetHistory(sess[key]), d.msg.content)],
            sess, started)

\* process_direct(content) is called: the await of the manager's start(), or
\* the `try` block at once
DirectCall(content) ==
    /\ direct.pc = "idle"
    /\ arrived + direct.calls < MaxMsgs
    /\ LET d == [NoDirect EXCEPT !.calls = direct.calls + 1, !.during_run = pc \in RunLoop,
                                 !.msg = DirectMessage(content)]
       IN  IF mcp_manager # "None" /\ ~mcp_started
           THEN /\ direct' = [d EXCEPT !.pc = "mcp_start"]
                /\ UNCHANGED << sessions, saved, returned >>
           ELSE DirectBegin(d, mcp_started)
    /\ UNCHANGED << mcp_manager, mcp_started, servers_up, unit_vars, mcp_vars, run_vars >>

\* process_direct(): start() and _register_mcp_tools() return,
\* self._mcp_started = True, then the `try` block
DirectMcpStart ==
    /\ direct.pc = "mcp_start"
    /\ mcp_manager' = "started"
    /\ clients' = ManagerStart(clients, servers_up, starts + 1)
    /\ registry' = RegisterMcpTools(registry, clients')
    /\ starts' = starts + 1
    /\ mcp_started' = TRUE
    /\ DirectBegin(direct, TRUE)
    /\ UNCHANGED << servers_up, unit_vars, stops, run_vars >>

\* provider.chat returns a response with tool calls
DirectChatReturnTools(resp) ==
    /\ direct.pc = "calling"
    /\ has_tool_calls(resp)
    /\ direct' = [direct EXCEPT
            !.response = resp,
            !.messages = add_assistant_message(@, resp.content, resp.tool_calls),
            !.results_done = 0,
            !.in_flight = Launch(resp.tool_calls, 0),
            !.tool_execs = @ + Cardinality(Launch(resp.tool_calls, 0)),
            !.pc = "executing"]
    /\ UNCHANGED << mcp_manager, mcp_started, returned, sessions, saved, servers_up, unit_vars,
                    mcp_vars, run_vars >>

\* provider.chat returns a response without tool calls
DirectChatReturnFinal(resp) ==
    /\ direct.pc = "calling"
    /\ ~has_tool_calls(resp)
    /\ DirectFinish([direct EXCEPT !.response = resp], resp.content, sessions, mcp_started)
    /\ UNCHANGED << mcp_manager, mcp_started, servers_up, unit_vars, mcp_vars, run_vars >>

\* provider.chat raises: process_direct() has no `except`, the exception goes
\* to the caller once the `finally` clause is through
DirectChatRaise(e) ==
    /\ direct.pc = "calling"
    /\ DirectFinally([direct EXCEPT !.outcome = Raises(e)], mcp_started)
    /\ UNCHANGED << mcp_manager, mcp_started, sessions, saved, servers_up, unit_vars, mcp_vars, run_vars >>

\* tools.execute returns or raises for tool call i
DirectToolReturn(i, out) ==
    /\ direct.pc = "executing"
    /\ i \in direct.in_flight
    /\ out \in Execute(direct.response.tool_calls[i].name, registry, clients)
    /\ IF out.raised
       THEN /\ DirectFinally([direct EXCEPT !.outcome = out], mcp_started)
            /\ UNCHANGED << sessions, saved >>
       ELSE LET calls == direct.response.tool_calls
                done == direct.results_done + 1
                rest == direct.in_flight \ {i}
                next == IF rest = {} THEN Launch(calls, done) ELSE rest
                d == [direct EXCEPT
                        !.messages = AppendToolResult(@, calls, i, out.text),
                        !.results_done = done,
                        !.in_flight = next,
                        !.tool_execs = @ + Cardinality(next \ rest)]
            IN  IF next # {}
                THEN /\ direct' = d
                     /\ UNCHANGED << sessions, saved, returned >>
                ELSE DirectCallOrFinish(d, sessions, mcp_started)
    /\ UNCHANGED << mcp_manager, mcp_started, servers_up, unit_vars, mcp_vars, run_vars >>

\* a variant without the `except` of the teardown: the fault reaches the caller
\* and the marker stays
DirectMcpStopFaultEscapes(e, k) ==
    /\ direct.pc = "mcp_stop"
    /\ k \in 0..Cardinality(DOMAIN clients)
    /\ clients' = ManagerStopAbandoned(clients, k)
    /\ stops' = stops + 1
    /\ returned' = [raised |-> TRUE, text |-> << e >>, teardown |-> "abandoned"]
    /\ direct' = [NoDirect EXCEPT !.calls = direct.calls]
    /\ UNCHANGED << mcp_manager, mcp_started, sessions, saved, servers_up, unit_vars, registry,
                    starts, run_vars >>

\* process_direct(): wait_for(stop(), 2.0) returns: self._mcp_started = False,
\* then the result or the exception of the `try` block goes to the caller
DirectMcpStopReturn ==
    /\ direct.pc = "mcp_stop"
    /\ mcp_manager' = "stopped"
    /\ clients' = ManagerStop(clients)
    /\ stops' = stops + 1
    /\ mcp_started' = FALSE
    /\ returned' = [raised |-> direct.outcome.raised, text |-> direct.outcome.text,
                    teardown |-> "done"]
    /\ direct' = [NoDirect EXCEPT !.calls = direct.calls]
    /\ UNCHANGED << sessions, saved, servers_up, unit_vars, registry, starts, run_vars >>

\* process_direct(): wait_for(stop(), 2.0) times out or is cancelled when k
\* clients are disconnected: `except (asyncio.TimeoutError, RuntimeError,
\* asyncio.CancelledError): pass`, self._mcp_started = False, then the result
\* or the exception of the `try` block goes to the caller
DirectMcpStopFault(e, k) ==
    /\ direct.pc = "mcp_stop"
    /\ k \in 0..Cardinality(DOMAIN clients)
    /\ clients' = ManagerStopAbandoned(clients, k)
    /\ stops' = stops + 1
    /\ mcp_started' = FALSE
    /\ returned' = [raised |-> direct.outcome.raised, text |-> direct.outcome.text,
                    teardown |-> "abandoned"]
    /\ direct' = [NoDirect EXCEPT !.calls = direct.calls]
    /\ UNCHANGED << mcp_manager, sessions, saved, servers_up, unit_vars, registry, starts, run_vars >>

\* a configured server goes down or comes up, between two calls
ServerChange(n) ==
    /\ direct.pc = "idle"
    /\ direct.calls < MaxMsgs
    /\ servers_up' = IF n \in servers_up THEN servers_up \ {n} ELSE servers_up \cup {n}
    /\ UNCHANGED << mcp_manager, sessions, saved, mcp_vars, direct_vars, run_vars,
                    unit_vars >>

\* process_direct() alone, as the command line calls it: run() is never started
NextDirect ==
    \/ \E content \in DirectContents : DirectCall(content)
    \/ DirectMcpStart
    \/ \E resp \in DirectResponses : DirectChatReturnTools(resp)
    \/ \E resp \in DirectResponses : DirectChatReturnFinal(resp)
    \/ \E e \in ProviderErrors : DirectChatRaise(e)
    \/ \E i \in 1..MaxToolCalls, name \in { DirectToolNames[k] : k \in 1..Len(DirectToolNames) } :
          \E out \in Execute(name, registry, clients) : DirectToolReturn(i, out)
    \/ DirectMcpStopReturn
    \/ \E e \in TeardownFaults, k \in 0..Len(McpConfig) : DirectMcpStopFault(e, k)
    \/ \E n \in ClientsConfig : ServerChange(n)

SpecDirect == Init /\ [][NextDirect]_vars

\* the session keys a caller passes: the default "cli:direct" and "telegram:42"
DirectKeys == { << "cli", Sep, "direct" >>, << "telegram", Sep, "42" >> }

\* process_direct(content, session_key): the body does not use session_key
ProcessDirect(content, key_arg) == DirectCall(content)

\* process_direct() alone, called with any session key
NextDirectKeyed ==
    \/ \E content \in DirectContents, key_arg \in DirectKeys :
          ProcessDirect(content, key_arg)
    \/ DirectMcpStart
    \/ \E resp \in DirectResponses : DirectChatReturnTools(resp)
    \/ \E resp \in DirectResponses : DirectChatReturnFinal(resp)
    \/ \E e \in ProviderErrors : DirectChatRaise(e)
    \/ \E i \in 1..MaxToolCalls, name \in { DirectToolNames[k] : k \in 1..Len(DirectToolNames) } :
          \E out \in Execute(name, registry, clients) : DirectToolReturn(i, out)
    \/ DirectMcpStopReturn
    \/ \E e \in TeardownFaults, k \in 0..Len(McpConfig) : DirectMcpStopFault(e, k)
    \/ \E n \in ClientsConfig : ServerChange(n)

SpecDirectKeyed == Init /\ [][NextDirectKeyed]_vars

----------------------------------------------------------------------------
(* MCPClientManager, the adapters and the registry driven by a caller that   *)
(* calls start(), list_all_tools(), the registration, execute() and stop()   *)
(* in any order, with servers that go down, fail to list their tools or fail *)
(* to close                                                                  *)

\* await manager.start(), with the servers in `up` reachable
MgrStart(up) ==
    /\ starts < MaxMsgs
    /\ servers_up' = up
    /\ clients' = ManagerStart(clients, up, starts + 1)
    /\ starts' = starts + 1
    /\ mgr' = [NoMgr EXCEPT !.op = "start", !.failing = ClientsConfig \ up,
                            !.active_before = DOMAIN clients]
    /\ UNCHANGED << mcp_manager, sessions, saved, stop_async_returned, naming, conn,
                    registry, stops, direct_vars, run_vars >>

\* await manager.list_all_tools(), with the list_tools request of the
\* clients in `failing` raising
MgrListAllTools(failing) ==
    /\ clients # NoClients
    /\ mgr' = [NoMgr EXCEPT !.op = "list", !.failing = failing,
                            !.raised = ListAllTools(clients, failing).raised,
                            !.listing = ListAllTools(clients, failing).listing,
                            !.active_before = DOMAIN clients]
    /\ UNCHANGED << mcp_manager, sessions, saved, servers_up, stop_async_returned, naming, conn,
                    mcp_vars, direct_vars, run_vars >>

\* await _register_mcp_tools(): an exception of list_all_tools() is logged
MgrRegister(failing) ==
    /\ clients # NoClients
    /\ LET all == ListAllTools(clients, failing)
       IN  registry' = IF all.raised THEN registry
                       ELSE RegisterListed(registry, clients, all.listing)
    /\ mgr' = [NoMgr EXCEPT !.op = "register", !.failing = failing,
                            !.listing = ListAllTools(clients, failing).listing,
                            !.active_before = DOMAIN clients]
    /\ UNCHANGED << mcp_manager, sessions, saved, servers_up, stop_async_returned, naming, conn,
                    clients, starts, stops, direct_vars, run_vars >>

\* await tools.execute(name, params) for a registered adapter: call_tool is
\* awaited on the adapter's session under the adapter's _name
MgrExecute(name, o) ==
    /\ name \in DOMAIN registry
    /\ o \in CallToolOutcomesAny(registry[name], clients)
    /\ mgr' = [NoMgr EXCEPT !.op = "execute", !.raised = AdapterExecute(o).raised,
                            !.name = name, !.called = registry[name],
                            !.outcome = IF o.raised THEN "call raised"
                                        ELSE IF Normalise(o.value).raised
                                        THEN "extraction raised" ELSE "returned",
                            !.out = AdapterExecute(o)]
    /\ UNCHANGED << mcp_manager, sessions, saved, servers_up, stop_async_returned, naming, conn,
                    mcp_vars, direct_vars, run_vars >>

\* await manager.stop(), with the teardown of the clients in `failing` raising
MgrStop(failing) ==
    /\ stops < starts
    /\ LET r == ManagerStopOutcome(clients, failing)
       IN  /\ clients' = r.clients
           /\ mgr' = [NoMgr EXCEPT !.op = "stop", !.failing = failing,
                                   !.raised = r.raised,
                                   !.active_before = DOMAIN clients,
                                   !.attempted = r.attempted]
    /\ stops' = stops + 1
    /\ UNCHANGED << mcp_manager, sessions, saved, servers_up, stop_async_returned, naming, conn,
                    registry, starts, direct_vars, run_vars >>

\* the names a model can ask the registry for
AdapterNames == { AdapterName(n, t) : n \in ClientsConfig, t \in { "search", "read" } }

\* the results and exceptions call_tool can come back with
AllOutcomes == UNION { CallToolOutcomesAny(registry[nm], clients) : nm \in DOMAIN registry }

NextManager ==
    \/ \E up \in SUBSET ClientsConfig : MgrStart(up)
    \/ \E failing \in SUBSET ClientsConfig : MgrListAllTools(failing)
    \/ \E failing \in SUBSET ClientsConfig : MgrRegister(failing)
    \/ \E name \in AdapterNames : \E o \in AllOutcomes : MgrExecute(name, o)
    \/ \E failing \in SUBSET ClientsConfig : MgrStop(failing)

SpecManager == Init /\ [][NextManager]_vars

----------------------------------------------------------------------------
(* _register_mcp_tools over clients and remote tools of any names            *)

\* tools.register(MCPToolAdapter(client_name, tool_def, session)): the
\* registry is a dict keyed by adapter.name
RegisterAdapter(client_name, name) ==
    /\ Cardinality(naming.pairs) < MaxAdapters
    /\ << client_name, name >> \notin naming.pairs
    /\ naming' = [pairs |-> naming.pairs \cup { << client_name, name >> },
                  tools |-> [nm \in DOMAIN naming.tools \cup { ExposedName(client_name, name) } |->
                               IF nm = ExposedName(client_name, name)
                               THEN << client_name, name >>
                               ELSE naming.tools[nm]]]
    /\ UNCHANGED << mcp_manager, sessions, saved, servers_up, stop_async_returned, mgr,
                    conn, mcp_vars, direct_vars, run_vars >>

NextNaming == \E client_name \in Names, name \in Names : RegisterAdapter(client_name, name)

SpecNaming == Init /\ [][NextNaming]_vars

----------------------------------------------------------------------------
(* MCPToolAdapter.execute over remote results of every shape                 *)

\* the content blocks of a remote result: two texts, a resource, an image
Blocks ==
    { [type |-> "text", text |-> << "2 hits" >>, uri |-> << >>, str |-> TRUE],
      [type |-> "text", text |-> << >>, uri |-> << >>, str |-> TRUE],
      [type |-> "resource", text |-> << >>, uri |-> << "file:a" >>, str |-> TRUE],
      [type |-> "image", text |-> << >>, uri |-> << >>, str |-> TRUE] }

\* the results call_tool can return: a string, a dict with a content string,
\* a dict without content, a dict with a content list, a list
RemoteResults ==
    { [shape |-> sh, text |-> t, blocks |-> << >>] :
          sh \in { "str", "content_str", "no_content" }, t \in { << "2 hits" >>, << >> } }
    \cup { [shape |-> sh, text |-> << >>, blocks |-> b] :
              sh \in { "content_list", "list" },
              b \in UNION { [1..k -> Blocks] : k \in 0..MaxBlocks } }

\* await adapter.execute() with call_tool returning result
ExecuteReturning(result) ==
    /\ mgr.result # result
    /\ mgr' = [NoMgr EXCEPT !.op = "normalise", !.result = result,
                            !.out = IF ResultText(result).raised
                                    THEN Returns(<< "Error: ", ResultText(result).error >>)
                                    ELSE Returns(ResultText(result).text)]
    /\ UNCHANGED << mcp_manager, sessions, saved, servers_up, stop_async_returned, naming, conn,
                    mcp_vars, direct_vars, run_vars >>

NextShapes == \E result \in RemoteResults : ExecuteReturning(result)

SpecShapes == Init /\ [][NextShapes]_vars

----------------------------------------------------------------------------
(* _init_mcp_clients and MCPClientManager.start() over configurations of any *)
(* entries                                                                   *)

\* one entry of mcp_config.clients as model_dump(exclude_unset=True) gives it:
\* the enabled flag and the type can be absent; command and url are present
\* and non-empty or not; up: the server answers when it is connected to
Entries ==
    [enabled : { "unset", "true", "false" },
     type : { "unset", "stdio", "http", "streamable_http", "grpc" },
     command : BOOLEAN, url : BOOLEAN, up : BOOLEAN]

\* the configurations of the clients fs and web
Configs == [{ "fs", "web" } -> Entries]

\* config.get("enabled", False)
IsEnabled(e) == e.enabled = "true"

\* config.get("type", "stdio")
ClientType(e) == IF e.type = "unset" THEN "stdio" ELSE e.type

\* the validation of an entry by its type, the same in _init_mcp_clients and
\* in start()
Complete(e) ==
    \/ ClientType(e) = "stdio" /\ e.command
    \/ ClientType(e) \in { "http", "streamable_http" } /\ e.url

\* _init_mcp_clients: the entries the manager is created with
InitMcpClients(cfg) ==
    [n \in { o \in DOMAIN cfg : IsEnabled(cfg[o]) /\ Complete(cfg[o]) } |-> cfg[n]]

\* a variant of start() in which an entry that is skipped ends the loop
RECURSIVE StartLoopAborting(_, _, _)
StartLoopAborting(order, cc, acc) ==
    IF order = << >> THEN acc
    ELSE LET n == Head(order)
         IN  IF ~IsEnabled(cc[n]) \/ ~Complete(cc[n])
             THEN acc
             ELSE StartLoopAborting(Tail(order), cc,
                      [acc EXCEPT !.attempted = @ \cup { n },
                                  !.active = IF cc[n].up THEN @ \cup { n } ELSE @])

\* MCPClientManager.start(), the loop over clients_config.items(): an entry
\* that is not enabled or not complete is skipped with `continue`; for the
\* others MCPClient(...).connect() is awaited in a try, and the client is
\* added when connect() has returned
RECURSIVE StartLoop(_, _, _)
StartLoop(order, cc, acc) ==
    IF order = << >> THEN acc
    ELSE LET n == Head(order)
         IN  IF ~IsEnabled(cc[n]) \/ ~Complete(cc[n])
             THEN StartLoop(Tail(order), cc, acc)
             ELSE StartLoop(Tail(order), cc,
                      [acc EXCEPT !.attempted = @ \cup { n },
                                  !.active = IF cc[n].up THEN @ \cup { n } ELSE @])

\* MCPClientManager(cc).start()
StartOutcome(cc) ==
    StartLoop(ClientOrder(DOMAIN cc), cc, [attempted |-> {}, active |-> {}, raised |-> FALSE])

\* a manager is made for configuration cfg, by AgentLoop._init_mcp_clients or
\* by its caller directly, and is started
StartConfigured(cfg, via_loop) ==
    /\ mgr.config = NoConfig
    /\ LET r == StartOutcome(IF via_loop THEN InitMcpClients(cfg) ELSE cfg)
       IN  mgr' = [NoMgr EXCEPT !.op = IF via_loop THEN "loop start" ELSE "start",
                                !.config = cfg, !.attempted = r.attempted,
                                !.active = r.active, !.raised = r.raised]
    /\ UNCHANGED << mcp_manager, sessions, saved, servers_up, stop_async_returned, naming, conn,
                    mcp_vars, direct_vars, run_vars >>

\* one loop, one configuration
NextConfig ==
    /\ mgr.config = NoConfig
    /\ \E cfg \in Configs, via_loop \in BOOLEAN : StartConfigured(cfg, via_loop)

SpecConfig == Init /\ [][NextConfig]_vars

----------------------------------------------------------------------------
(* One MCPClient: connect() once, then disconnect() any number of times      *)

\* what the server does when it is connected to: the handshake completes,
\* the transport cannot be opened, or initialize() fails on the open transport
ServerBehaviours == { "ok", "unreachable", "handshake fails" }

\* how the __aexit__ of a context ends: it returns, it raises the
\* RuntimeError about a cancel scope, or it raises another exception
ExitOutcomes == { "ok", "cancel scope", "error" }

\* _connect_stdio / _connect_http on a POSIX system. In silent mode the
\* stdio command line is built with shlex.quote(arg) for each argument, one
\* line above the function's `import shlex`: with any argument the name is
\* unbound and the NameError is handled like every failure: session = None,
\* raise. _transport_context is assigned before its __aenter__ is awaited
Connect(c, type, silent, args, server) ==
    LET given == [c EXCEPT !.op = "connect", !.type = type, !.silent = silent,
                           !.args = args, !.server = server]
    IN  IF type = "stdio" /\ silent /\ args
        THEN [given EXCEPT !.raised = TRUE]
        ELSE IF server = "unreachable"
        THEN [given EXCEPT !.raised = TRUE, !.transport_context = TRUE]
        ELSE IF server = "handshake fails"
        THEN [given EXCEPT !.raised = TRUE, !.transport_context = TRUE,
                           !.transport_open = TRUE, !.session_context = TRUE,
                           !.session_open = TRUE, !.session = FALSE]
        ELSE [given EXCEPT !.transport_context = TRUE, !.transport_open = TRUE,
                           !.session_context = TRUE, !.session_open = TRUE,
                           !.session = TRUE]

\* disconnect(): the session context is exited, then the transport context,
\* each if it is set, and each set to None when its __aexit__ has returned or
\* raised the cancel-scope RuntimeError; any other exception goes to the
\* outer `except Exception`, which only sets session = None
Disconnect(c, sx, tx) ==
    LET called == [c EXCEPT !.op = "disconnect", !.raised = FALSE, !.session = FALSE,
                            !.disconnects = @ + 1,
                            !.called_on = IF c.disconnects > 0 THEN "disconnected"
                                          ELSE IF c.op = "None" \/ c.raised
                                          THEN "never connected"
                                          ELSE IF ~c.transport_open THEN "transport closed"
                                          ELSE "connected"]
        s_tried == IF c.session_context
                   THEN [called EXCEPT !.session_exits = @ + 1] ELSE called
        s_done == IF c.session_context
                  THEN [s_tried EXCEPT !.session_context = FALSE, !.session_open = FALSE]
                  ELSE called
        t_tried == IF c.transport_context
                   THEN [s_done EXCEPT !.transport_exits = @ + 1] ELSE s_done
        t_done == IF c.transport_context
                  THEN [t_tried EXCEPT !.transport_context = FALSE, !.transport_open = FALSE]
                  ELSE s_done
    IN  IF c.session_context /\ sx = "error" THEN s_tried
        ELSE IF c.transport_context /\ tx = "error" THEN t_tried
        ELSE t_done

\* client = MCPClient(name, config, silent); await client.connect()
ClientConnect(type, silent, args, server) ==
    /\ conn' = Connect(conn, type, silent, args, server)
    /\ UNCHANGED << mcp_manager, sessions, saved, servers_up, stop_async_returned, mgr,
                    naming, mcp_vars, direct_vars, run_vars >>

\* the server goes away: the transport of a connected client is closed under it
TransportCloses ==
    /\ conn.op # "None" /\ conn.transport_open
    /\ conn' = [conn EXCEPT !.transport_open = FALSE, !.session_open = FALSE]
    /\ UNCHANGED << mcp_manager, sessions, saved, servers_up, stop_async_returned, mgr,
                    naming, mcp_vars, direct_vars, run_vars >>

\* await client.disconnect()
ClientDisconnect(sx, tx) ==
    /\ conn.disconnects < MaxDisconnects
    /\ conn' = Disconnect(conn, sx, tx)
    /\ UNCHANGED << mcp_manager, sessions, saved, servers_up, stop_async_returned, mgr,
                    naming, mcp_vars, direct_vars, run_vars >>

NextClient ==
    \/ /\ conn.op = "None"
       /\ \E type \in { "stdio", "http" }, silent \in BOOLEAN, args \in BOOLEAN,
             server \in ServerBehaviours : ClientConnect(type, silent, args, server)
    \/ TransportCloses
    \/ \E sx \in ExitOutcomes, tx \in ExitOutcomes : ClientDisconnect(sx, tx)

SpecClient == Init /\ [][NextClient]_vars

----------------------------------------------------------------------------
(* Properties *)

Last(seq) == seq[Len(seq)]

\* the turns a processed message adds to its session
TwoTurns(m, content) ==
    << Turn("user", UserTurnContent(m)), Turn("assistant", content) >>

\* the tool calls of the assistant message at position j of msgs are answered
\* right after it, one result per call, in order, each with the call's id
ResultsFollow(msgs, j) ==
    LET calls == msgs[j].tool_calls
        n == Len(calls)
    IN  /\ j + n <= Len(msgs)
        /\ \A i \in 1..n :
              /\ msgs[j + i].role = "tool"
              /\ msgs[j + i].tool_call_id = calls[i].id
              /\ msgs[j + i].name = calls[i].name
        /\ j + n < Len(msgs) => msgs[j + n + 1].role # "tool"

\* C1: while a message (normal or system-origin) is processed, the number of
\* provider.chat calls made for it never exceeds max_iterations.
C1_ChatCallsBounded == chat_calls <= max_iterations

\* a system-origin message, consumed after a first message, has used the whole
\* budget of the largest configuration
C1_Witness ==
    /\ pc = "publishing"
    /\ Len(log) = 2
    /\ IsSystem(msg)
    /\ max_iterations = MaxIterations
    /\ chat_calls = max_iterations

\* C2: whenever a provider call is being made, every earlier response with N
\* tool calls is followed in the message sequence by exactly N tool results,
\* one per call, carrying that call's id.
C2_ResultsBeforeNextCall ==
    pc = "calling" =>
        \A j \in 1..Len(messages) :
            messages[j].role = "assistant" => ResultsFollow(messages, j)

\* the second provider call is being made after a response with the largest
\* number of tool calls
C2_Witness ==
    /\ pc = "calling"
    /\ iteration = 2
    /\ Len(response.tool_calls) = MaxToolCalls
    /\ MaxToolCalls >= 2

\* C3: at most one tool execution is in flight, it is the one right after the
\* last appended result, and the results appended so far are those of the
\* first calls of the response, in the provider's order.
C3_ToolsSequential ==
    /\ Cardinality(in_flight) <= 1
    /\ \A i \in in_flight : i = results_done + 1
    /\ pc = "executing" =>
          /\ results_done < Len(response.tool_calls)
          /\ \A i \in 1..results_done :
                LET r == messages[Len(messages) - results_done + i]
                IN  r.role = "tool" /\ r.tool_call_id = response.tool_calls[i].id

\* the second tool call of a response is executing, the first result is appended
C3_Witness ==
    /\ pc = "executing"
    /\ in_flight = {2}
    /\ results_done = 1

\* C4: when every one of the max_iterations provider calls returned tool calls,
\* processing is over once the last result is appended, and the reply and the
\* saved assistant turn carry the fallback text, not the model's content.
C4_ExhaustedGivesFallback ==
    /\ (pc = "executing" /\ chat_calls = max_iterations) =>
          results_done < Len(response.tool_calls)
    /\ (pc = "publishing" /\ has_tool_calls(response)) =>
          /\ chat_calls = max_iterations
          /\ pending.content = Fallback(msg)
          /\ pending.content # response.content
          /\ Last(sessions[session_key]) = Turn("assistant", Fallback(msg))

\* a budget of more than one iteration is used up by tool-call responses
C4_Witness ==
    /\ pc = "publishing"
    /\ has_tool_calls(response)
    /\ chat_calls = MaxIterations
    /\ MaxIterations >= 2

\* C5: the reply is the fallback text only when the budget was exhausted, and a
\* response without tool calls is replied with its own content, an absent
\* (None) content included.
C5_CompletionDistinguishable ==
    pc = "publishing" =>
        /\ ~has_tool_calls(response) => pending.content = response.content
        /\ pending.content = Fallback(msg) =>
              has_tool_calls(response) /\ chat_calls = max_iterations

\* C6: the session store is exactly as it was when the session was resolved
\* during the whole call/execute loop, and once the loop has ended the resolved
\* session, and only it, has grown by the user turn and the assistant turn
\* carrying the final content, and has been saved so.
C6_SessionGrowsByTwoTurns ==
    /\ pc \in { "calling", "executing" } =>
          sessions = before.sessions /\ saved = before.saved
    /\ (pc = "publishing" \/ (pc = "handler" /\ Last(log).raised = "publish")) =>
          LET hist == before.sessions[session_key] \o TwoTurns(msg, final_content)
          IN  /\ sessions = [before.sessions EXCEPT ![session_key] = hist]
              /\ saved = Save(before.saved, session_key, hist)
              /\ pc = "publishing" => pending.content = final_content

\* a message that took two provider calls is saved to a session that already
\* held an earlier message's turns
C6_Witness ==
    /\ pc = "publishing"
    /\ chat_calls = 2
    /\ Len(before.sessions[session_key]) = 2
    /\ Len(sessions[session_key]) = 4

\* C7: when the provider raised, on whichever iteration, the session store is
\* as it was when the session was resolved: no turn appended, nothing saved.
C7_ProviderFailureLeavesSession ==
    (pc = "handler" /\ Last(log).raised = "chat") =>
        sessions = before.sessions /\ saved = before.saved

\* the provider raised on the second call, after a tool was executed
C7_Witness ==
    /\ pc = "handler"
    /\ Last(log).raised = "chat"
    /\ chat_calls = 2
    /\ tool_execs >= 1

\* the error reply run() builds for the k-th consumed message
ErrorReplyFor(k) ==
    OutboundMessage(log[k].msg.channel, log[k].msg.chat_id,
                    << "Sorry, I encountered an error: ", log[k].error >>)

\* C8: for every consumed message whose processing raised, run() hands
\* publish_outbound an error reply addressed to the message's channel and chat
\* id, and that reply is on the bus unless that very publish call raised.
C8_ErrorReplyToSender ==
    \A k \in 1..Len(log) :
        log[k].raised # "None" =>
            \/ k = Len(log) /\ pc = "handler" /\ pending = ErrorReplyFor(k)
            \/ /\ log[k].error_reply = ErrorReplyFor(k)
               /\ \E j \in 1..Len(outbound) : outbound[j] = ErrorReplyFor(k)
            \/ /\ log[k].error_fault \in BusFaults
               /\ log[k].error_reply = NoOutbound

\* the error reply for a system-origin message whose provider call raised is on
\* the bus
C8_Witness ==
    /\ Len(log) >= 1
    /\ IsSystem(Last(log).msg)
    /\ Last(log).raised = "chat"
    /\ Len(outbound) >= 1
    /\ Last(outbound) = ErrorReplyFor(Len(log))

\* C9: the driving loop is left only after a stop request or with an exception
\* of the bus, never with the exception of a message's processing; when the
\* error reply of a failed message is published and no stop was requested, run()
\* is waiting for the next message.
C9_FailureKeepsLoopRunning ==
    /\ fault \notin ProviderErrors
    /\ pc \in { "mcp_stop", "stopped" } => stop_requested
    /\ pc = "crashed" => fault = "RuntimeError"
    /\ (Len(log) > 0 /\ Last(log).raised # "None" /\ Last(log).error_reply # NoOutbound
            /\ ~stop_requested /\ fault = "None")
          => pc = "consume" /\ running

\* the first message's processing raised, the second message was consumed after
\* it, processed, and its reply published
C9_Witness ==
    /\ Len(log) = 2
    /\ log[1].raised = "chat"
    /\ log[2].raised = "None"
    /\ log[2].reply # NoOutbound
    /\ Last(outbound) = log[2].reply

\* C10: run() never terminates with an exception, whatever fails during an
\* iteration of the driving loop.
C10_NoFaultEscapesRun == pc # "crashed" /\ fault = "None"

----------------------------------------------------------------------------
(* run() and process_direct() as two tasks of one event loop, as the gateway *)
(* has them when a scheduled job calls process_direct() while run() serves   *)
(* the bus: either task can take its next step whenever the other is at an   *)
(* await                                                                     *)

NextConcurrent ==
    \/ RunStart
    \/ McpStart
    \/ McpStop
    \/ Stop
    \/ \E m \in InboundChoices : arrived + direct.calls < MaxMsgs /\ BusPublishInbound(m)
    \/ ConsumeTimeout
    \/ ConsumeMessage
    \/ \E resp \in ProviderResponses : ChatReturnTools(resp)
    \/ \E resp \in ProviderResponses : ChatReturnFinal(resp)
    \/ \E i \in 1..MaxToolCalls, name \in { ToolNames[k] : k \in 1..Len(ToolNames) } :
          \E result \in ToolResults(name) : ToolReturn(i, result)
    \/ PublishReturn
    \/ \E content \in DirectContents : DirectCall(content)
    \/ DirectMcpStart
    \/ \E resp \in DirectResponses : DirectChatReturnTools(resp)
    \/ \E resp \in DirectResponses : DirectChatReturnFinal(resp)
    \/ \E i \in 1..MaxToolCalls, name \in { DirectToolNames[k] : k \in 1..Len(DirectToolNames) } :
          \E out \in Execute(name, registry, clients) : DirectToolReturn(i, out)
    \/ DirectMcpStopReturn

SpecConcurrent == Init /\ [][NextConcurrent]_vars

----------------------------------------------------------------------------
(* run() serving announcements of subagents, whose chat_id carries the       *)
(* conversation they belong to                                               *)

\* the chat_ids of the announcements: "alpha:42", "a:b:c", "nosep"
RoutingKeys ==
    { << "alpha", Sep, "42" >>, << "a", Sep, "b", Sep, "c" >>, << "nosep" >> }

RoutingChoices ==
    { [channel |-> << "system" >>, sender_id |-> << "subagent" >>, chat_id |-> k,
       content |-> << "task done" >>] : k \in RoutingKeys }

NextRouting ==
    \/ RunStart
    \/ McpStart
    \/ \E m \in RoutingChoices : BusPublishInbound(m)
    \/ ConsumeTimeout
    \/ ConsumeMessage
    \/ \E resp \in ProviderResponses : ChatReturnTools(resp)
    \/ \E resp \in ProviderResponses : ChatReturnFinal(resp)
    \/ \E i \in 1..MaxToolCalls, name \in { ToolNames[k] : k \in 1..Len(ToolNames) } :
          \E result \in ToolResults(name) : ToolReturn(i, result)
    \/ PublishReturn

SpecRouting == Init /\ [][NextRouting]_vars

----------------------------------------------------------------------------
(* Properties of process_direct() and of the remote tools *)

\* the texts a failed tool execution is reported with
IsFaultText(t) == t[1] \in { "Error: ", "Error executing ", "Error: Tool '" }

\* the tool results at the end of msgs answer the first k of calls, in order
AnswersFirst(msgs, calls, k) ==
    /\ Len(msgs) > k
    /\ msgs[Len(msgs) - k].role = "assistant"
    /\ msgs[Len(msgs) - k].tool_calls = calls
    /\ \A i \in 1..k :
          /\ msgs[Len(msgs) - k + i].role = "tool"
          /\ msgs[Len(msgs) - k + i].tool_call_id = calls[i].id
          /\ msgs[Len(msgs) - k + i].name = calls[i].name

\* C11: a tool execution that fails (a failing built-in tool, a failing remote
\* tool, a name the registry does not know) never ends the processing with an
\* exception: the only exception processing ends with is the provider's. Its
\* fault text is appended as the result for that call's id, the next tool call
\* is executed, and the next provider call is made once every call has its
\* result.
C11_ToolFaultBecomesResult ==
    /\ direct.outcome.raised => direct.outcome.text \in { << e >> : e \in ProviderErrors }
    /\ returned.raised => returned.text \in { << e >> : e \in ProviderErrors }
    /\ direct.pc = "executing" =>
          /\ AnswersFirst(direct.messages, direct.response.tool_calls, direct.results_done)
          /\ direct.in_flight = { direct.results_done + 1 }
    /\ (direct.pc = "calling" /\ direct.iteration > 1) =>
          AnswersFirst(direct.messages, direct.response.tool_calls,
                       Len(direct.response.tool_calls))

\* the provider is called again after a remote tool and a built-in tool have
\* both failed
C11_Witness ==
    /\ direct.pc = "calling"
    /\ direct.iteration = 2
    /\ Len(direct.response.tool_calls) = 2
    /\ Last(direct.messages).name = "exec"
    /\ IsFaultText(Last(direct.messages).content)
    /\ direct.messages[Len(direct.messages) - 1].name = "mcp_fs_search"
    /\ direct.messages[Len(direct.messages) - 1].content = << "Error: ", "connection closed" >>

\* the positions between resolving a message's session and saving it
Processing == { "calling", "executing" }

\* C12: no two Inbound messages are processed at the same time by one
\* AgentLoop, whether they come through run() or through process_direct():
\* while run() is between resolving the session of its message and saving it,
\* process_direct() is not, and the other way round.
C12_OneMessageAtATime == ~(pc \in Processing /\ direct.pc \in Processing)

\* the replies to message k of the log: the one handed to publish_outbound and
\* the one the bus has accepted
RepliesTo(k) ==
    (IF k = Len(log) /\ pc = "publishing" THEN { pending } ELSE {})
    \cup (IF log[k].reply # NoOutbound THEN { log[k].reply } ELSE {})

\* C13: the reply to a system-origin message whose chat_id contains ":" goes
\* to the channel named before the first ":" and to the chat id that is
\* everything after it: "alpha:42" gives "alpha" / "42", "a:b:c" gives
\* "a" / "b:c".
C13_SplitAtFirstSeparator ==
    \A k \in 1..Len(log) : \A r \in RepliesTo(k) :
        (IsSystem(log[k].msg) /\ HasSep(log[k].msg.chat_id)) =>
            /\ ~HasSep(r.channel)
            /\ Key(r.channel, r.chat_id) = log[k].msg.chat_id
            /\ log[k].msg.chat_id = << "alpha", Sep, "42" >> =>
                  r.channel = << "alpha" >> /\ r.chat_id = << "42" >>
            /\ log[k].msg.chat_id = << "a", Sep, "b", Sep, "c" >> =>
                  r.channel = << "a" >> /\ r.chat_id = << "b", Sep, "c" >>

\* the announcement for "a:b:c" has been answered
C13_Witness ==
    \E k \in 1..Len(log) :
        /\ log[k].msg.chat_id = << "a", Sep, "b", Sep, "c" >>
        /\ log[k].reply # NoOutbound
        /\ log[k].reply = Last(outbound)

\* C14: the reply to a system-origin message whose chat_id contains no ":"
\* goes to the channel "cli", with the chat_id as it came as the chat id.
C14_NoSeparatorGoesToCli ==
    \A k \in 1..Len(log) : \A r \in RepliesTo(k) :
        (IsSystem(log[k].msg) /\ ~HasSep(log[k].msg.chat_id)) =>
            r.channel = << "cli" >> /\ r.chat_id = log[k].msg.chat_id

\* the announcement for "nosep" has been answered
C14_Witness ==
    \E k \in 1..Len(log) :
        /\ log[k].msg.chat_id = << "nosep" >>
        /\ log[k].reply # NoOutbound
        /\ log[k].reply.chat_id = << "nosep" >>

\* C15: no Outbound message published in response to a system-origin message
\* is addressed to the channel "system": the reply and the error reply both go
\* to the origin parsed from the chat_id.
C15_NoReplyToSystemChannel ==
    \A k \in 1..Len(log) :
        IsSystem(log[k].msg) =>
            \A r \in { log[k].reply, log[k].error_reply } \ { NoOutbound } :
                /\ r.channel # << "system" >>
                /\ r.channel = Origin(log[k].msg)[1]
                /\ r.chat_id = Origin(log[k].msg)[2]

\* C16: when the first response of the provider has no tool calls, one
\* provider call and no tool execution have been made for the message, the
\* reply carries the provider's content to the message's channel and chat id,
\* and the session has grown by the two turns (user: the message's content,
\* assistant: the provider's content).
C16_ToolLessFirstResponse ==
    (pc = "publishing" /\ chat_calls = 1 /\ ~has_tool_calls(response) /\ ~IsSystem(msg)) =>
        /\ tool_execs = 0
        /\ pending = OutboundMessage(msg.channel, msg.chat_id, response.content)
        /\ sessions[session_key] =
              before.sessions[session_key]
                  \o << Turn("user", msg.content), Turn("assistant", response.content) >>

\* run() is at or past the stop of the manager
StopBegun == pc \in { "mcp_stop", "stopped" }

\* a step taken once the stop of the manager has begun consumes nothing
NothingAfterStop == StopBegun => (StopBegun' /\ log' = log /\ inbound' = inbound)

DirectDone == direct.pc = "idle" /\ direct.calls > 0

\* process_direct() has started the manager for the call it is in, and has
\* called stop() for every call it is through with
DirectBracket ==
    /\ direct.pc \in Processing =>
          /\ mcp_started
          /\ starts = direct.calls
          /\ stops = direct.calls - 1
          /\ \A n \in ClientsConfig \cap servers_up :
                n \in DOMAIN clients /\ clients[n] = [gen |-> starts, session |-> TRUE]
    /\ direct.pc = "mcp_start" => starts = direct.calls - 1 /\ stops = direct.calls - 1
    /\ direct.pc = "mcp_stop" => starts = direct.calls /\ stops = direct.calls - 1
    /\ DirectDone => starts = direct.calls /\ stops = direct.calls

\* C18: when the manager has not been started, process_direct() starts it
\* before it processes its message and stops it again before it returns,
\* whether processing returned or raised: once process_direct() has returned
\* or raised, the active client set of the manager is empty.
C18_ActiveSetEmptyOnReturn == DirectBracket /\ (DirectDone => clients = NoClients)

\* C19: a process_direct() called when run() has started the manager makes no
\* start/stop bracket of its own: it connects no client again and disconnects
\* none, so that run() keeps the clients it has connected.
C19_NoBracketOnStartedManager ==
    (direct.during_run /\ pc \in RunLoop) =>
        /\ direct.pc \notin { "mcp_start", "mcp_stop" }
        /\ clients = ManagerStart(NoClients, servers_up, 1)

\* a step that ends the teardown gives the caller the result or the exception
\* of the processing and clears the marker; a step that begins a call begins
\* with the start of the manager
TeardownStep ==
    /\ (direct.pc = "mcp_stop" /\ direct'.pc = "idle") =>
          /\ returned'.raised = direct.outcome.raised
          /\ returned'.text = direct.outcome.text
          /\ ~mcp_started'
    /\ (direct.pc = "idle" /\ direct'.pc # "idle") => direct'.pc = "mcp_start"

\* C20: a timeout or a cancellation raised while process_direct() stops the
\* manager is swallowed: the caller gets the response, or the exception of the
\* processing, never the fault of the teardown, and the marker of the started
\* manager is cleared, so that the next process_direct() starts the manager
\* afresh.
C20_TeardownFaultSwallowed ==
    /\ [](/\ returned.raised => returned.text \in { << e >> : e \in ProviderErrors }
          /\ direct.pc \in { "idle", "mcp_start" } => ~mcp_started)
    /\ [][TeardownStep]_vars

\* a second call is processed on a manager started afresh, after the teardown
\* of the first one timed out or was cancelled
C20_Witness ==
    /\ returned.teardown = "abandoned"
    /\ ~returned.raised
    /\ direct.calls = 2
    /\ direct.pc = "calling"
    /\ starts = 2

\* C21: once stop() has cleared the flag while run() is in its loop, run()
\* sees it at the next poll, leaves the loop, stops the manager and returns,
\* given that every provider and tool call in flight comes back: it does not
\* poll for ever.
C21_StopEndsRun == (pc \in RunLoop /\ ~running) ~> (pc = "stopped")

\* C22: when stop_async() has returned, every Remote Tool Client has been
\* torn down or its teardown was given up at the timeout: no client of the
\* active set still holds a session that no stop of the manager has touched.
C22_StopAsyncTearsDown ==
    stop_async_returned =>
        \/ \A n \in DOMAIN clients : ~clients[n].session
        \/ stops >= starts

\* start() has returned to process_direct() and one configured server was
\* reachable while another was not
OneFailedOneConnected ==
    /\ direct.pc \in Processing
    /\ ClientsConfig \cap servers_up # {}
    /\ ClientsConfig \ servers_up # {}

\* C23: start() isolates the connection failure of one client: when one
\* configured client fails to connect and another succeeds, start() returns,
\* the active set holds the client that connected and not the one that failed,
\* and list_all_tools(), which has one entry for each client of the active
\* set, has an entry for the connected client only.
C23_StartIsolatesFailure ==
    OneFailedOneConnected =>
        /\ DOMAIN clients = ClientsConfig \cap servers_up
        /\ \A n \in DOMAIN clients : clients[n] = [gen |-> starts, session |-> TRUE]

\* C24: in every reachable state each client of the manager's active set has
\* completed its connect/initialize handshake: no client is in the active set
\* while its session handle is absent.
C24_ActiveClientsHaveSession == \A n \in DOMAIN clients : clients[n].session

\* C25: stop() attempts to disconnect every client of the active set even if
\* the teardown of an earlier client fails, raises nothing for such a failure
\* and leaves the active set empty.
C25_StopDisconnectsEveryClient ==
    mgr.op = "stop" =>
        /\ mgr.attempted = mgr.active_before
        /\ ~mgr.raised
        /\ clients = NoClients

\* stop() of two clients of which the first in the dict failed to close
C25_Witness ==
    /\ mgr.op = "stop"
    /\ mgr.active_before = { "fs", "web" }
    /\ mgr.failing = { "fs" }
    /\ "web" \in mgr.attempted

\* C26: list_all_tools() isolates listing failures: a client whose listing
\* fails is mapped to the empty list, every other client of the active set to
\* its own tools, and no exception reaches the caller.
C26_ListingFailureIsolated ==
    mgr.op = "list" =>
        /\ ~mgr.raised
        /\ DOMAIN mgr.listing = DOMAIN clients
        /\ \A n \in DOMAIN clients :
              mgr.listing[n] = IF n \in mgr.failing \/ ~clients[n].session
                               THEN {} ELSE ServerTools(n)

\* list_all_tools() over two clients of which web failed to list
C26_Witness ==
    /\ mgr.op = "list"
    /\ DOMAIN clients = { "fs", "web" }
    /\ mgr.failing = { "web" }
    /\ mgr.listing["web"] = {}
    /\ mgr.listing["fs"] = { "search", "read" }

\* C27: a client that fails to list its tools is dropped from the active
\* set: after list_all_tools() has seen the listing of a client fail,
\* get_client() and get_all_clients() no longer return that client.
C27_FailedListerDropped ==
    mgr.op = "list" =>
        \A n \in mgr.failing \cap mgr.active_before : n \notin DOMAIN clients

\* C28: two clients that expose a tool of the same name get two adapters
\* under the distinct names mcp_<client>_<tool>, and executing either calls
\* the tool under its own unprefixed name on the session its own client had
\* at the registration, never on the other client's.
C28_SameToolTwoClients ==
    /\ mgr.op = "register" =>
          \A n \in DOMAIN clients, o \in DOMAIN clients :
              \A t \in mgr.listing[n] \cap mgr.listing[o] :
                  /\ n # o => AdapterName(n, t) # AdapterName(o, t)
                  /\ AdapterName(n, t) \in DOMAIN registry
                  /\ registry[AdapterName(n, t)] = Adapter(n, t, clients)
    /\ mgr.op = "execute" =>
          \A n \in ClientsConfig, t \in { "search", "read" } :
              mgr.name = AdapterName(n, t) =>
                  /\ mgr.called.client = n
                  /\ mgr.called.tool = t

\* the adapter of fs's search is executed while web's search is registered too
C28_Witness ==
    /\ mgr.op = "execute"
    /\ mgr.name = "mcp_fs_search"
    /\ mgr.outcome = "returned"
    /\ "mcp_web_search" \in DOMAIN registry
    /\ registry["mcp_web_search"].client = "web"
    /\ DOMAIN clients = { "fs", "web" }

\* C30: MCPToolAdapter.execute never raises: whatever exception occurs while
\* the remote tool is called or while its result is normalised, execute
\* returns a text, which begins with "Error: ".
C30_ExecuteNeverRaises ==
    mgr.op = "execute" =>
        /\ ~mgr.out.raised
        /\ mgr.outcome # "returned" =>
              Len(mgr.out.text) > 0 /\ mgr.out.text[1] = "Error: "

\* call_tool has returned a result whose text item cannot be joined
C30_Witness ==
    /\ mgr.op = "execute"
    /\ mgr.outcome = "extraction raised"
    /\ mgr.out = Returns(<< "Error: ", "expected str instance" >>)

\* C29: the exposed name of a remote tool is collision-free: two distinct
\* (client name, remote tool name) pairs never yield the same registered
\* name, so that registering an adapter never replaces one registered before:
\* every pair registered is still in the registry under its own name.
C29_NamesCollisionFree ==
    /\ \A p \in naming.pairs, q \in naming.pairs :
          p # q => ExposedName(p[1], p[2]) # ExposedName(q[1], q[2])
    /\ \A p \in naming.pairs : naming.tools[ExposedName(p[1], p[2])] = p

\* the lines of a text: the pieces between its newline tokens
RECURSIVE SplitLines(_)
SplitLines(text) ==
    IF \A i \in 1..Len(text) : text[i] # "\n" THEN << text >>
    ELSE LET k == CHOOSE i \in 1..Len(text) :
                      text[i] = "\n" /\ \A j \in 1..(i - 1) : text[j] # "\n"
         IN  << SubSeq(text, 1, k - 1) >> \o SplitLines(SubSeq(text, k + 1, Len(text)))

\* what one content block contributes: a text block its text, a resource
\* block a placeholder with its uri, any other block a placeholder with its
\* type
Contribution(block, line) ==
    IF block.type = "text" THEN line = block.text
    ELSE IF block.type = "resource"
    THEN Len(line) > 1 /\ line[1] = "Resource: " /\ Tail(line) = block.uri
    ELSE Len(line) > 0 /\ \E i \in 1..Len(line) : line[i] = block.type

C32_NoTypeNoConnection ==
    mgr.config # NoConfig =>
        \A n \in mgr.attempted :
            mgr.config[n].type \in { "stdio", "http", "streamable_http" }

\* the entry n of the last configuration is one start() must skip
Skipped(n) ==
    \/ mgr.config[n].enabled # "true"
    \/ mgr.config[n].type \in { "stdio", "unset" } /\ ~mgr.config[n].command
    \/ mgr.config[n].type \in { "http", "streamable_http" } /\ ~mgr.config[n].url
    \/ mgr.config[n].type = "grpc"

\* C33: a connection is attempted only to an entry that is enabled (no flag
\* is not enabled) and has the field of its transport, command for stdio and
\* url for the HTTP variants; every other entry is skipped with no attempt
\* and no exception, and the others are started as if it were not configured.
C33_OnlyEnabledCompleteEntries ==
    mgr.config # NoConfig =>
        /\ ~mgr.raised
        /\ mgr.attempted = { n \in DOMAIN mgr.config : ~Skipped(n) }
        /\ LET rest == [n \in { o \in DOMAIN mgr.config : ~Skipped(o) } |-> mgr.config[n]]
           IN  /\ mgr.attempted = StartOutcome(rest).attempted
               /\ mgr.active = StartOutcome(rest).active
               /\ mgr.active = { n \in DOMAIN rest : rest[n].up }

\* fs, first in the configuration, has no enabled flag and is skipped; web is
\* enabled, complete and up, and is connected
C33_Witness ==
    /\ mgr.config # NoConfig
    /\ mgr.config["fs"].enabled = "unset"
    /\ mgr.config["fs"].command /\ mgr.config["fs"].type = "stdio" /\ mgr.config["fs"].up
    /\ mgr.config["web"] =
          [enabled |-> "true", type |-> "http", command |-> FALSE, url |-> TRUE, up |-> TRUE]
    /\ mgr.op = "start"
    /\ mgr.attempted = { "web" }
    /\ mgr.active = { "web" }

\* C34: disconnect() is idempotent: on a client that is already
\* disconnected, was never connected or has lost its transport it raises
\* nothing and leaves no session handle and no session or transport context,
\* and a second call tears no context down a second time.
C34_DisconnectIdempotent ==
    (conn.op = "disconnect" /\ conn.called_on # "connected") =>
        /\ ~conn.raised
        /\ ~conn.session /\ ~conn.session_context /\ ~conn.transport_context
        /\ conn.session_exits <= 1 /\ conn.transport_exits <= 1

\* C37: in silent mode a stdio client behaves like the non-silent one but
\* for the subprocess's diagnostic stream: with a configuration and a server
\* with which connect() succeeds when not silent, it succeeds when silent.
C37_SilentConnectsAlike ==
    (conn.op = "connect" /\ conn.type = "stdio" /\ conn.silent) =>
        (Connect(NoConn, "stdio", FALSE, conn.args, conn.server).session =>
            ~conn.raised /\ conn.session)

\* C40: no transport is leaked by a failed connect or a failed disconnect:
\* when connect() has raised, and when disconnect() has returned, the
\* transport that was opened is closed.
C40_NoTransportLeak ==
    /\ (conn.op = "connect" /\ conn.raised) => ~conn.transport_open
    /\ conn.op = "disconnect" => ~conn.transport_open

\* a call process_direct(content, session_key) works on the session of that key
UsesGivenSession ==
    \A content \in DirectContents, key_arg \in DirectKeys :
        ProcessDirect(content, key_arg) => SessionKey(direct'.msg) = key_arg

\* C38: process_direct(content, session_key) records the turn in the session
\* its session_key argument names: the history is read from and the two turns
\* are appended to the session with that key, whatever the key.
C38_DirectUsesSessionKey == [][UsesGivenSession]_vars

\* C39: whenever the adapter of a remote tool is among the tool definitions
\* of a provider call, the client that owns it is in the active set and the
\* session the adapter holds is that client's live one: no adapter bound to
\* a session torn down by a stop or left behind by a restart can be called.
C39_NoStaleAdapterExposed ==
    direct.pc = "calling" => \A nm \in DOMAIN registry : Live(registry[nm], clients)

\* what a step of run() does once the flag is cleared: a message in
\* processing goes on to its next provider call, tool execution, reply or
\* error reply; when its processing ends its two turns are saved; run()
\* leaves the loop only between messages, a reply in hand being published in
\* the same step
StopLeavesProcessingAlone ==
    ~running =>
        /\ pc \in Processing => pc' \in Processing \cup { "publishing", "handler" }
        /\ (pc \in Processing /\ pc' = "publishing") =>
              LET hist == before.sessions[session_key] \o TwoTurns(msg, final_content')
              IN  /\ sessions' = [before.sessions EXCEPT ![session_key] = hist]
                  /\ saved' = Save(before.saved, session_key, hist)
                  /\ pending'.content = final_content'
        /\ (pc \in RunLoop /\ pc' \in { "mcp_stop", "stopped" }) =>
              /\ pc \in { "consume", "publishing", "handler" }
              /\ pc = "publishing" => outbound' = Append(outbound, pending)

\* C35: a stop request is not preemptive: when stop() is called while a
\* message is being processed, during a provider call or a tool execution,
\* the message is processed to its end, its two turns are saved and its
\* reply is published before run() leaves the loop and begins the teardown.
C35_StopNotPreemptive == [][StopLeavesProcessingAlone]_vars

\* the flag is cleared and the message, after a tool round, has its reply
\* ready to be published
C35_Witness ==
    /\ stop_requested /\ ~running
    /\ pc = "publishing"
    /\ chat_calls = 2
    /\ tool_execs >= 1

\* C36: a stop request is never lost to a startup race: once stop() has been
\* called on a loop whose run() is scheduled, run() comes to its end (it
\* returns, or it has left by an exception of the bus), whether stop() came
\* before run() set its running flag, while the manager was starting, or
\* while run() was polling.
C36_StopNeverLost == stop_requested ~> (pc \in { "stopped", "crashed" })
====
